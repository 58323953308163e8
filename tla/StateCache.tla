---------------------------- MODULE StateCache ----------------------------
(***************************************************************************)
(* State (state.go): what the cache of one guild becomes when an event is     *)
(* applied to it.  The cache holds the same things twice: in slices of the     *)
(* Guild, and in maps of State that index them.  Both are kept by hand, and      *)
(* this module keeps both: slice and index, id -> version, 0 where there is      *)
(* none.                                                                   *)
(*                                                                         *)
(* The parts of a guild do not meet: a cache is therefore that of the Guild      *)
(* and of one part of it, named by the argument "part".  In place updates      *)
(* through a pointer that slice and map share change both.                  *)
(***************************************************************************)
EXTENDS Naturals, Integers, Sequences, FiniteSets

CONSTANTS
    Ids,               \* channels, members, roles... of the guild
    MaxVersion,        \* bound: versions of the content of one of them
    MaxMessageCount    \* field of State

ASSUME StateCacheAssumption ==
    /\ Ids \subseteq Nat \ {0} /\ IsFiniteSet(Ids)
    /\ MaxVersion \in Nat \ {0}
    /\ MaxMessageCount \in Nat \ {0}

Parts == {"channel", "thread", "member", "role", "emoji", "sound", "voice", "message"}

Items   == [Ids -> 0..MaxVersion]
NoItems == [i \in Ids |-> 0]

\* The Guild events carry roles and emojis always, the other parts only GUILD_CREATE.
InGuildUpdate == {"role", "emoji"}

\* An entry of channelMap is not under its guild: nothing drops it with the guild.
InChannelMap == {"channel", "thread"}

NewState ==
    [guilds   |-> FALSE,         \* the guild is in the slice Ready.Guilds
     guildMap |-> FALSE,         \* it is in guildMap
     count    |-> 0,             \* Guild.MemberCount
     slice    |-> NoItems,       \* the part's slice of the Guild in guildMap
     index    |-> NoItems,       \* the part in channelMap, memberMap, roleMap or emojiMap
     channel  |-> FALSE,         \* channelMap has the channel of the messages
     messages |-> <<>>]          \* Channel.Messages: <<id, version>>, in order of arrival

CacheType ==
    [guilds : BOOLEAN, guildMap : BOOLEAN, count : Int, slice : Items, index : Items,
     channel : BOOLEAN, messages : Seq(Ids \X (1..MaxVersion))]

\* A write through the pointer that the index holds: the slice shares it if it has the item.
InPlace(c, i, v) ==
    [c EXCEPT !.index[i] = v, !.slice[i] = IF @ # 0 THEN v ELSE 0]

Both(c, i, v) == [c EXCEPT !.index[i] = v, !.slice[i] = v]

\* New objects of a payload in the index: channelMap keeps what it had besides.
Reindexed(part, c, items) ==
    [i \in Ids |-> IF part \in InChannelMap /\ items[i] = 0 THEN c.index[i] ELSE items[i]]

\* A payload without the part (a nil slice) leaves it as it is.
GuildAdd(part, c, e) ==
    [c EXCEPT
        !.guilds   = IF c.guildMap THEN @ ELSE TRUE,
        !.guildMap = TRUE,
        !.count    = IF e.count = 0 THEN @ ELSE e.count,
        !.slice    = IF e.given THEN e.items ELSE @,
        !.index    = IF e.given THEN Reindexed(part, c, e.items) ELSE @,
        !.channel  = IF e.type = "GUILD_CREATE" THEN TRUE ELSE @,
        !.messages = IF e.type = "GUILD_CREATE" THEN <<>> ELSE @]

GuildRemove(part, c) ==
    IF ~c.guildMap THEN c
    ELSE [c EXCEPT !.guilds = FALSE, !.guildMap = FALSE, !.count = 0, !.slice = NoItems,
                   !.index = IF part \in InChannelMap THEN @ ELSE NoItems]

\* READY lists the guilds as stubs.  A guild it does not list stays in guildMap.
OnReady(part, c, e) ==
    IF e.listed
    THEN [c EXCEPT !.guilds = TRUE, !.guildMap = TRUE, !.count = 0, !.slice = NoItems,
                   !.index = IF part = "member" THEN NoItems ELSE @]
    ELSE [c EXCEPT !.guilds = FALSE]

MemberAdd(c, i, v) == IF c.guildMap THEN Both(c, i, v) ELSE c

MemberRemove(c, i) == IF c.guildMap /\ c.index[i] # 0 THEN Both(c, i, 0) ELSE c

\* GUILD_MEMBER_ADD and GUILD_MEMBER_REMOVE count first.
Counted(c, n) == IF c.guildMap THEN [c EXCEPT !.count = @ + n] ELSE c

RoleAdd(c, i, v) ==
    IF ~c.guildMap THEN c
    ELSE IF c.index[i] # 0 THEN InPlace(c, i, v) ELSE Both(c, i, v)

RoleRemove(c, i) == IF c.guildMap /\ c.index[i] # 0 THEN Both(c, i, 0) ELSE c

ChannelAdd(c, i, v) ==
    IF c.index[i] # 0 THEN InPlace(c, i, v)
    ELSE IF c.guildMap THEN Both(c, i, v) ELSE c

\* Mutant: the map keeps what left the slice.
ChannelRemoveFromSlice(c, i) == IF c.guildMap THEN [c EXCEPT !.slice[i] = 0] ELSE c

ChannelRemove(c, i) == IF c.guildMap /\ c.index[i] # 0 THEN Both(c, i, 0) ELSE c

\* Threads of the synced channels: all there were go, those of the event come.  Threads of
\* other channels stay.
ThreadListSync(c, synced, items) ==
    IF ~c.guildMap THEN c
    ELSE [c EXCEPT !.slice = [i \in Ids |-> IF i \in synced THEN items[i] ELSE @[i]],
                   !.index = [i \in Ids |-> IF i \in synced /\ (c.slice[i] # 0 \/ items[i] # 0)
                                            THEN items[i] ELSE @[i]]]

\* The slice is replaced; emojiMap is not touched.
EmojisUpdate(c, items) == IF c.guildMap THEN [c EXCEPT !.slice = items] ELSE c

\* Sounds and voice states are in no map.
SoundboardSoundAdd(c, i, v) == IF c.guildMap THEN [c EXCEPT !.slice[i] = v] ELSE c

SoundboardSoundRemove(c, i) == IF c.guildMap THEN [c EXCEPT !.slice[i] = 0] ELSE c

SoundboardSoundsUpdate(c, items) == IF c.guildMap THEN [c EXCEPT !.slice = items] ELSE c

VoiceStateUpdate(c, i, v) == IF c.guildMap THEN [c EXCEPT !.slice[i] = v] ELSE c

Positions(c, i) == {n \in DOMAIN c.messages : c.messages[n][1] = i}

\* MessageAdd finds a message again, so there is one at most.
Position(c, i) == CHOOSE n \in Positions(c, i) : TRUE

MessageAdd(c, i, v) ==
    IF ~c.channel THEN c
    ELSE IF Positions(c, i) # {} THEN [c EXCEPT !.messages[Position(c, i)] = <<i, v>>]
    ELSE LET all  == Append(c.messages, <<i, v>>)
             over == Len(all) - MaxMessageCount
         IN  [c EXCEPT !.messages = IF over > 0 THEN SubSeq(all, over + 1, Len(all)) ELSE all]

MessageRemove(c, i) ==
    IF ~c.channel \/ Positions(c, i) = {} THEN c
    ELSE LET n == Position(c, i)
         IN  [c EXCEPT !.messages = SubSeq(@, 1, n - 1) \o SubSeq(@, n + 1, Len(@))]

\* What the events of a part do.  old is what the server had: GUILD_MEMBER_ADD is the
\* event of a member that was not there, GUILD_MEMBER_UPDATE that of one that was.
Set(part, c, e) ==
    CASE part \in InChannelMap -> ChannelAdd(c, e.id, e.version)
      [] part = "member"  -> MemberAdd(IF e.old = 0 THEN Counted(c, 1) ELSE c, e.id, e.version)
      [] part = "role"    -> RoleAdd(c, e.id, e.version)
      [] part = "sound"   -> SoundboardSoundAdd(c, e.id, e.version)
      [] part = "voice"   -> VoiceStateUpdate(c, e.id, e.version)
      [] part = "message" -> MessageAdd(c, e.id, e.version)

Remove(part, c, e) ==
    CASE part \in InChannelMap -> ChannelRemove(c, e.id)
      [] part = "member"  -> MemberRemove(Counted(c, -1), e.id)
      [] part = "role"    -> RoleRemove(c, e.id)
      [] part = "sound"   -> SoundboardSoundRemove(c, e.id)
      [] part = "voice"   -> VoiceStateUpdate(c, e.id, 0)
      [] part = "message" -> MessageRemove(c, e.id)

\* Events that carry all the items: GUILD_EMOJIS_UPDATE, GUILD_SOUNDBOARD_SOUNDS_UPDATE and,
\* for the channels it syncs, THREAD_LIST_SYNC.
InOneEvent == {"emoji", "sound", "thread"}

Replace(part, c, e) ==
    CASE part = "emoji"  -> EmojisUpdate(c, e.items)
      [] part = "sound"  -> SoundboardSoundsUpdate(c, e.items)
      [] part = "thread" -> ThreadListSync(c, e.synced, e.items)

OnInterface(part, c, e) ==
    CASE e.type = "READY" -> OnReady(part, c, e)
      [] e.type \in {"GUILD_CREATE", "GUILD_UPDATE"} -> GuildAdd(part, c, e)
      [] e.type = "GUILD_DELETE" -> GuildRemove(part, c)
      [] e.type = "SET"     -> Set(part, c, e)
      [] e.type = "REMOVE"  -> Remove(part, c, e)
      [] e.type = "REPLACE" -> Replace(part, c, e)

=============================================================================
