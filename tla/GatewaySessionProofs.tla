------------------------ MODULE GatewaySessionProofs ------------------------
(***************************************************************************)
(* Theorems about the event path of a Session and its cache, for any ids,     *)
(* bounds and number of generations.                                        *)
(***************************************************************************)
EXTENDS GatewaySession, FiniteSetTheorems, SequenceTheorems, TLAPS

\* The events there are while part is exercised.
Events ==
    [type : {"READY"}, listed : BOOLEAN]
        \cup [type : {"GUILD_CREATE", "GUILD_UPDATE"}, given : BOOLEAN, items : Items, count : Nat]
        \cup [type : {"GUILD_DELETE"}]
        \cup [type : {"SET"}, id : Ids, version : 1..MaxVersion, old : 0..MaxVersion]
        \cup [type : {"REMOVE"}, id : Ids]
        \cup [type : {"REPLACE"}, synced : SUBSET Ids, items : Items]

Fits(e) ==
    /\ e.type \in {"SET", "REMOVE"} => part \in Parts \ {"emoji"}
    /\ e.type = "REPLACE" => part \in InOneEvent

Truths == [guild : BOOLEAN, items : Items, gone : SUBSET Ids, left : BOOLEAN]

\* A listener holds an event, which it will store or apply.
Hands == {"store", "apply"}

Links(n) == [state : {"off", "hello", "up", "refused", "down"}, session : 0..n, next : Nat]
HandTypes == [pc : InHand \cup {"off", "read", "ack", "ended"}, number : Nat,
              event : Events \cup {[type |-> "none"]}]

BeatTypes ==
    /\ beat \in [Generations -> {"off", "wait", "check", "stamp", "write", "ended"}]
    /\ beats \in [Generations -> Nat] /\ owed \in [Generations -> BOOLEAN]
    /\ unacked \in BOOLEAN /\ meddled \in BOOLEAN

Types ==
    /\ part \in DOMAIN Exercised \cup {"heartbeat"}
    /\ truth \in Truths /\ changes \in Nat
    /\ session \in [number : Nat, live : BOOLEAN, log : Seq(Events)]
    /\ \A n \in DOMAIN session.log : Fits(session.log[n])
    /\ link \in [Generations -> Links(session.number)]
    /\ generation \in 0..MaxGenerations /\ loaded \in Nat
    /\ sessionID \in 0..session.number /\ sequence \in Nat
    /\ listener \in [Generations -> HandTypes]
    /\ \A g \in Generations : listener[g].pc \in Hands =>
           ~Beating /\ listener[g].event \in Events /\ Fits(listener[g].event)
    /\ cache \in CacheType
    /\ BeatTypes
    /\ late \in BOOLEAN /\ crossed \in BOOLEAN /\ gap \in BOOLEAN

-----------------------------------------------------------------------------
(* The cache.                                                               *)

LEMMA EventIs ==
  ASSUME NEW e \in Events
  PROVE  /\ e.type \in {"READY", "GUILD_CREATE", "GUILD_UPDATE", "GUILD_DELETE", "SET", "REMOVE",
                        "REPLACE"}
         /\ e.type = "READY" => e.listed \in BOOLEAN
         /\ e.type \in {"GUILD_CREATE", "GUILD_UPDATE"} =>
                e.given \in BOOLEAN /\ e.items \in Items /\ e.count \in Nat
         /\ e.type = "SET" =>
                e.id \in Ids /\ e.version \in 1..MaxVersion /\ e.old \in 0..MaxVersion
         /\ e.type = "REMOVE" => e.id \in Ids
         /\ e.type = "REPLACE" => e.synced \subseteq Ids /\ e.items \in Items
BY DEF Events

LEMMA EventMade ==
  /\ \A b \in BOOLEAN : [type |-> "READY", listed |-> b] \in Events
  /\ \A t \in {"GUILD_CREATE", "GUILD_UPDATE"}, b \in BOOLEAN, items \in Items, n \in Nat :
        [type |-> t, given |-> b, items |-> items, count |-> n] \in Events
  /\ [type |-> "GUILD_DELETE"] \in Events
  /\ \A i \in Ids, v \in 1..MaxVersion, o \in 0..MaxVersion :
        [type |-> "SET", id |-> i, version |-> v, old |-> o] \in Events
  /\ \A i \in Ids : [type |-> "REMOVE", id |-> i] \in Events
  /\ \A s \in SUBSET Ids, items \in Items :
        [type |-> "REPLACE", synced |-> s, items |-> items] \in Events
BY DEF Events

LEMMA NoItemsIsItems == NoItems \in Items
BY StateCacheAssumption DEF NoItems, Items

LEMMA NewStateType == NewState \in CacheType
BY NoItemsIsItems, EmptySeq DEF NewState, CacheType

\* What a write to one item leaves.
LEMMA WriteOne ==
  ASSUME NEW f \in Items, NEW i \in Ids, NEW v \in 0..MaxVersion
  PROVE  [f EXCEPT ![i] = v] \in Items
BY DEF Items

LEMMA BothType ==
  ASSUME NEW c \in CacheType, NEW i \in Ids, NEW v \in 0..MaxVersion
  PROVE  Both(c, i, v) \in CacheType
<1>1. c.index \in Items /\ c.slice \in Items
  BY DEF CacheType
<1>2. [c.index EXCEPT ![i] = v] \in Items /\ [c.slice EXCEPT ![i] = v] \in Items
  BY <1>1, WriteOne
<1> QED BY <1>1, <1>2 DEF Both, CacheType

LEMMA InPlaceType ==
  ASSUME NEW c \in CacheType, NEW i \in Ids, NEW v \in 0..MaxVersion
  PROVE  InPlace(c, i, v) \in CacheType
<1>1. c.index \in Items /\ c.slice \in Items
  BY DEF CacheType
<1>2. [c.index EXCEPT ![i] = v] \in Items
      /\ [c.slice EXCEPT ![i] = IF c.slice[i] # 0 THEN v ELSE 0] \in Items
  BY <1>1, StateCacheAssumption DEF Items
<1> QED BY <1>1, <1>2 DEF InPlace, CacheType

LEMMA SliceType ==
  ASSUME NEW c \in CacheType, NEW items \in Items
  PROVE  [c EXCEPT !.slice = items] \in CacheType
BY DEF CacheType

LEMMA CountedType ==
  ASSUME NEW c \in CacheType, NEW n \in Int
  PROVE  Counted(c, n) \in CacheType
BY DEF Counted, CacheType

LEMMA GuildAddType ==
  ASSUME NEW c \in CacheType, NEW e \in Events, e.type \in {"GUILD_CREATE", "GUILD_UPDATE"}
  PROVE  GuildAdd(part, c, e) \in CacheType
<1>1. e.given \in BOOLEAN /\ e.items \in Items /\ e.count \in Nat
  BY EventIs
<1>2. c.index \in Items /\ c.slice \in Items
  BY DEF CacheType
<1>3. Reindexed(part, c, e.items) \in Items
  BY <1>1, <1>2 DEF Reindexed, Items
<1>4. <<>> \in Seq(Ids \X (1..MaxVersion))
  BY EmptySeq
<1> DEFINE guilds == IF c.guildMap THEN c.guilds ELSE TRUE
           count  == IF e.count = 0 THEN c.count ELSE e.count
           slice  == IF e.given THEN e.items ELSE c.slice
           index  == IF e.given THEN Reindexed(part, c, e.items) ELSE c.index
           chan   == IF e.type = "GUILD_CREATE" THEN TRUE ELSE c.channel
           mess   == IF e.type = "GUILD_CREATE" THEN <<>> ELSE c.messages
<1>5. /\ guilds \in BOOLEAN /\ count \in Int /\ slice \in Items /\ index \in Items
      /\ chan \in BOOLEAN /\ mess \in Seq(Ids \X (1..MaxVersion))
  <2>1. guilds \in BOOLEAN /\ chan \in BOOLEAN
    BY DEF CacheType
  <2>2. count \in Int
    BY <1>1 DEF CacheType
  <2>3. slice \in Items /\ index \in Items
    BY <1>1, <1>2, <1>3
  <2>4. mess \in Seq(Ids \X (1..MaxVersion))
    BY <1>4 DEF CacheType
  <2> QED BY <2>1, <2>2, <2>3, <2>4
<1>6. GuildAdd(part, c, e) =
        [c EXCEPT !.guilds = guilds, !.guildMap = TRUE, !.count = count, !.slice = slice,
                  !.index = index, !.channel = chan, !.messages = mess]
  BY DEF GuildAdd, CacheType
<1> HIDE DEF guilds, count, slice, index, chan, mess
<1> QED BY <1>5, <1>6 DEF CacheType

LEMMA GuildRemoveType ==
  ASSUME NEW c \in CacheType
  PROVE  GuildRemove(part, c) \in CacheType
<1> DEFINE none  == 0
           index == IF part \in InChannelMap THEN c.index ELSE NoItems
<1>1. index \in Items /\ none \in Int
  BY NoItemsIsItems DEF CacheType
<1> DEFINE d == [c EXCEPT !.guilds = FALSE, !.guildMap = FALSE, !.count = none, !.slice = NoItems,
                          !.index = index]
<1>2. GuildRemove(part, c) = c \/ GuildRemove(part, c) = d
  BY DEF GuildRemove, CacheType
<1> HIDE DEF index, none
<1>3. d \in CacheType
  BY <1>1, NoItemsIsItems DEF CacheType
<1> HIDE DEF d
<1> QED BY <1>2, <1>3

LEMMA OnReadyType ==
  ASSUME NEW c \in CacheType, NEW e
  PROVE  OnReady(part, c, e) \in CacheType
<1> DEFINE none  == 0
           index == IF part = "member" THEN NoItems ELSE c.index
<1>1. index \in Items /\ none \in Int
  BY NoItemsIsItems DEF CacheType
<1> DEFINE d == [c EXCEPT !.guilds = TRUE, !.guildMap = TRUE, !.count = none, !.slice = NoItems,
                          !.index = index]
<1>2. OnReady(part, c, e) = [c EXCEPT !.guilds = FALSE] \/ OnReady(part, c, e) = d
  BY DEF OnReady, CacheType
<1> HIDE DEF index, none
<1>3. d \in CacheType /\ [c EXCEPT !.guilds = FALSE] \in CacheType
  BY <1>1, NoItemsIsItems DEF CacheType
<1> HIDE DEF d
<1> QED BY <1>2, <1>3

LEMMA ThreadListSyncType ==
  ASSUME NEW c \in CacheType, NEW s \in SUBSET Ids, NEW items \in Items
  PROVE  ThreadListSync(c, s, items) \in CacheType
<1> DEFINE slice == [i \in Ids |-> IF i \in s THEN items[i] ELSE c.slice[i]]
           index == [i \in Ids |-> IF i \in s /\ (c.slice[i] # 0 \/ items[i] # 0)
                                   THEN items[i] ELSE c.index[i]]
<1>1. slice \in Items /\ index \in Items
  BY DEF CacheType, Items
<1>2. ThreadListSync(c, s, items) \in {c, [c EXCEPT !.slice = slice, !.index = index]}
  BY DEF ThreadListSync, CacheType
<1> HIDE DEF slice, index
<1> QED BY <1>1, <1>2 DEF CacheType

\* The messages of the channel.
LEMMA PositionIs ==
  ASSUME NEW c, NEW i, Positions(c, i) # {}
  PROVE  Position(c, i) \in DOMAIN c.messages /\ c.messages[Position(c, i)][1] = i
BY DEF Position, Positions

LEMMA MessageAddType ==
  ASSUME NEW c \in CacheType, NEW i \in Ids, NEW v \in 1..MaxVersion
  PROVE  MessageAdd(c, i, v) \in CacheType
<1> DEFINE M == Ids \X (1..MaxVersion)
<1>1. c.messages \in Seq(M) /\ <<i, v>> \in M
  BY DEF CacheType
<1>2. \A s \in Seq(M) : [c EXCEPT !.messages = s] \in CacheType
  BY DEF CacheType
<1>3. CASE ~c.channel
  BY <1>3 DEF MessageAdd
<1>4. CASE c.channel /\ Positions(c, i) # {}
  <2>1. [c.messages EXCEPT ![Position(c, i)] = <<i, v>>] \in Seq(M)
    BY <1>1, <1>4, PositionIs, ExceptSeq
  <2>2. MessageAdd(c, i, v) = [c EXCEPT !.messages = [c.messages EXCEPT ![Position(c, i)] = <<i, v>>]]
    BY <1>4 DEF MessageAdd, CacheType
  <2> QED BY <2>1, <2>2, <1>2
<1>5. CASE c.channel /\ Positions(c, i) = {}
  <2> DEFINE all  == Append(c.messages, <<i, v>>)
             over == Len(all) - MaxMessageCount
  <2>1. all \in Seq(M) /\ Len(all) \in Nat
    BY <1>1, AppendProperties
  <2>2. over > 0 => SubSeq(all, over + 1, Len(all)) \in Seq(M)
    <3> SUFFICES ASSUME over > 0 PROVE SubSeq(all, over + 1, Len(all)) \in Seq(M)
      OBVIOUS
    <3>1. over \in Nat \ {0} /\ over + 1 \in 1..(Len(all) + 1)
      BY <2>1, StateCacheAssumption
    <3> HIDE DEF all, over
    <3> QED BY <2>1, <3>1, SubSeqProperties
  <2>3. MessageAdd(c, i, v) =
          [c EXCEPT !.messages = IF over > 0 THEN SubSeq(all, over + 1, Len(all)) ELSE all]
    BY <1>5 DEF MessageAdd
  <2> HIDE DEF all, over
  <2> QED BY <1>2, <2>1, <2>2, <2>3
<1> QED BY <1>3, <1>4, <1>5

LEMMA MessageRemoveType ==
  ASSUME NEW c \in CacheType, NEW i \in Ids
  PROVE  MessageRemove(c, i) \in CacheType
<1> DEFINE M == Ids \X (1..MaxVersion)
           n == Position(c, i)
           s == c.messages
<1>1. s \in Seq(M)
  BY DEF CacheType
<1>2. \A t \in Seq(M) : [c EXCEPT !.messages = t] \in CacheType
  BY DEF CacheType
<1>3. CASE ~c.channel \/ Positions(c, i) = {}
  BY <1>3 DEF MessageRemove
<1>4. CASE c.channel /\ Positions(c, i) # {}
  <2>1. n \in 1..Len(s) /\ Len(s) \in Nat
    BY <1>1, <1>4, PositionIs, LenProperties
  <2>2. SubSeq(s, 1, n - 1) \in Seq(M) /\ SubSeq(s, n + 1, Len(s)) \in Seq(M)
    <3> HIDE DEF n, s, M
    <3>1. 1 \in 1..(Len(s) + 1) /\ n - 1 \in (1 - 1)..Len(s)
      BY <2>1
    <3>2. n + 1 \in 1..(Len(s) + 1) /\ Len(s) \in (n + 1 - 1)..Len(s)
      BY <2>1
    <3> QED BY <1>1, <3>1, <3>2, SubSeqProperties
  <2>3. SubSeq(s, 1, n - 1) \o SubSeq(s, n + 1, Len(s)) \in Seq(M)
    BY <2>2, ConcatProperties
  <2>4. MessageRemove(c, i) = [c EXCEPT !.messages = SubSeq(s, 1, n - 1) \o SubSeq(s, n + 1, Len(s))]
    BY <1>4 DEF MessageRemove, CacheType
  <2> QED BY <2>3, <2>4, <1>2
<1> QED BY <1>3, <1>4

LEMMA SetType ==
  ASSUME NEW c \in CacheType, NEW e \in Events, e.type = "SET", Fits(e)
  PROVE  Set(part, c, e) \in CacheType
<1>1. e.id \in Ids /\ e.version \in 1..MaxVersion /\ e.version \in 0..MaxVersion
  BY EventIs, StateCacheAssumption
<1>2. part \in Parts \ {"emoji"}
  BY DEF Fits
<1>3. CASE part \in InChannelMap
  <2>1. Set(part, c, e) = ChannelAdd(c, e.id, e.version)
    BY <1>3 DEF Set, InChannelMap
  <2> QED BY <1>1, <2>1, BothType, InPlaceType DEF ChannelAdd
<1>4. CASE part = "member"
  <2>1. (IF e.old = 0 THEN Counted(c, 1) ELSE c) \in CacheType
    BY CountedType
  <2>2. Set(part, c, e) = MemberAdd(IF e.old = 0 THEN Counted(c, 1) ELSE c, e.id, e.version)
    BY <1>4 DEF Set, InChannelMap
  <2> QED BY <1>1, <2>1, <2>2, BothType DEF MemberAdd
<1>5. CASE part = "role"
  <2>1. Set(part, c, e) = RoleAdd(c, e.id, e.version)
    BY <1>5 DEF Set, InChannelMap
  <2> QED BY <1>1, <2>1, BothType, InPlaceType DEF RoleAdd
<1>6. CASE part \in {"sound", "voice"}
  <2>1. Set(part, c, e) \in {c, [c EXCEPT !.slice = [c.slice EXCEPT ![e.id] = e.version]]}
    BY <1>6 DEF Set, InChannelMap, SoundboardSoundAdd, VoiceStateUpdate, CacheType
  <2>2. [c.slice EXCEPT ![e.id] = e.version] \in Items
    BY <1>1, WriteOne DEF CacheType
  <2> QED BY <2>1, <2>2, SliceType
<1>7. CASE part = "message"
  <2>1. Set(part, c, e) = MessageAdd(c, e.id, e.version)
    BY <1>7 DEF Set, InChannelMap
  <2> QED BY <1>1, <2>1, MessageAddType
<1> QED BY <1>2, <1>3, <1>4, <1>5, <1>6, <1>7 DEF Parts, InChannelMap

LEMMA RemoveType ==
  ASSUME NEW c \in CacheType, NEW e \in Events, e.type = "REMOVE", Fits(e)
  PROVE  Remove(part, c, e) \in CacheType
<1>1. e.id \in Ids /\ 0 \in 0..MaxVersion
  BY EventIs, StateCacheAssumption
<1>2. part \in Parts \ {"emoji"}
  BY DEF Fits
<1>3. CASE part \in InChannelMap
  <2>1. Remove(part, c, e) = ChannelRemove(c, e.id)
    BY <1>3 DEF Remove, InChannelMap
  <2> QED BY <1>1, <2>1, BothType DEF ChannelRemove
<1>4. CASE part = "member"
  <2>1. Counted(c, -1) \in CacheType
    BY CountedType
  <2>2. Remove(part, c, e) = MemberRemove(Counted(c, -1), e.id)
    BY <1>4 DEF Remove, InChannelMap
  <2> QED BY <1>1, <2>1, <2>2, BothType DEF MemberRemove
<1>5. CASE part = "role"
  <2>1. Remove(part, c, e) = RoleRemove(c, e.id)
    BY <1>5 DEF Remove, InChannelMap
  <2> QED BY <1>1, <2>1, BothType DEF RoleRemove
<1>6. CASE part \in {"sound", "voice"}
  <2>1. Remove(part, c, e) \in {c, [c EXCEPT !.slice = [c.slice EXCEPT ![e.id] = 0]]}
    BY <1>6 DEF Remove, InChannelMap, SoundboardSoundRemove, VoiceStateUpdate, CacheType
  <2>2. [c.slice EXCEPT ![e.id] = 0] \in Items
    BY <1>1, WriteOne DEF CacheType
  <2> QED BY <2>1, <2>2, SliceType
<1>7. CASE part = "message"
  <2>1. Remove(part, c, e) = MessageRemove(c, e.id)
    BY <1>7 DEF Remove, InChannelMap
  <2> QED BY <1>1, <2>1, MessageRemoveType
<1> QED BY <1>2, <1>3, <1>4, <1>5, <1>6, <1>7 DEF Parts, InChannelMap

LEMMA ReplaceType ==
  ASSUME NEW c \in CacheType, NEW e \in Events, e.type = "REPLACE", Fits(e)
  PROVE  Replace(part, c, e) \in CacheType
<1>1. e.items \in Items /\ e.synced \in SUBSET Ids
  BY EventIs
<1>2. part \in InOneEvent
  BY DEF Fits
<1>3. CASE part = "thread"
  BY <1>1, <1>3, ThreadListSyncType DEF Replace
<1>4. CASE part \in {"emoji", "sound"}
  <2>1. Replace(part, c, e) \in {c, [c EXCEPT !.slice = e.items]}
    BY <1>4 DEF Replace, EmojisUpdate, SoundboardSoundsUpdate
  <2> QED BY <1>1, <2>1, SliceType
<1> QED BY <1>2, <1>3, <1>4 DEF InOneEvent

\* Whatever the event, the cache keeps its type.
LEMMA OnInterfaceType ==
  ASSUME NEW c \in CacheType, NEW e \in Events, Fits(e)
  PROVE  OnInterface(part, c, e) \in CacheType
<1>1. e.type \in {"READY", "GUILD_CREATE", "GUILD_UPDATE", "GUILD_DELETE", "SET", "REMOVE",
                  "REPLACE"}
  BY EventIs
<1>2. CASE e.type = "READY"
  BY <1>2, OnReadyType DEF OnInterface
<1>3. CASE e.type \in {"GUILD_CREATE", "GUILD_UPDATE"}
  BY <1>3, GuildAddType DEF OnInterface
<1>4. CASE e.type = "GUILD_DELETE"
  BY <1>4, GuildRemoveType DEF OnInterface
<1>5. CASE e.type = "SET"
  BY <1>5, SetType DEF OnInterface
<1>6. CASE e.type = "REMOVE"
  BY <1>6, RemoveType DEF OnInterface
<1>7. CASE e.type = "REPLACE"
  BY <1>7, ReplaceType DEF OnInterface
<1> QED BY <1>1, <1>2, <1>3, <1>4, <1>5, <1>6, <1>7

-----------------------------------------------------------------------------

(* The server.                                                              *)

\* The event e says how the guild t became u.
Change(e, t, u) ==
    \/ \E i \in Ids, v \in 1..MaxVersion :
          /\ t.guild /\ part # "emoji" /\ i \notin t.gone /\ v = t.items[i] + 1
          /\ e = [type |-> "SET", id |-> i, version |-> v, old |-> t.items[i]]
          /\ u = [t EXCEPT !.items[i] = v]
    \/ \E i \in Ids :
          /\ t.guild /\ part # "emoji" /\ t.items[i] # 0
          /\ e = [type |-> "REMOVE", id |-> i]
          /\ u = [t EXCEPT !.items[i] = 0,
                           !.gone = IF part \in MayReturn THEN @ ELSE @ \cup {i}]
    \/ \E items \in Items, s \in SUBSET Ids :
          /\ t.guild /\ part \in InOneEvent /\ \A i \in Ids \ s : items[i] = t.items[i]
          /\ e = [type |-> "REPLACE", synced |-> s, items |-> items]
          /\ u = [t EXCEPT !.items = items]
    \/ t.guild /\ e = GuildUpdate(t.items) /\ u = t
    \/ t.guild /\ e = [type |-> "GUILD_DELETE"] /\ u = [t EXCEPT !.guild = FALSE, !.left = TRUE]
    \/ \E items \in Items :
          /\ ~t.guild
          /\ e = GuildCreate(IF part = "message" THEN NoItems ELSE items)
          /\ u = [guild |-> TRUE, items |-> items, left |-> TRUE,
                  gone |-> IF part \in MayReturn \cup {"thread"} THEN t.gone
                           ELSE t.gone \cup {i \in Ids : t.items[i] # 0 /\ items[i] = 0}]

LEMMA PresentCounts ==
  ASSUME NEW items \in Items
  PROVE  Present(items) \in Nat
<1>1. IsFiniteSet({i \in Ids : items[i] # 0})
  BY StateCacheAssumption, FS_Subset
<1> QED BY <1>1, FS_CardinalityType DEF Present

LEMMA GuildEvents ==
  ASSUME NEW items \in Items
  PROVE  /\ GuildCreate(items) \in Events /\ GuildCreate(items).type = "GUILD_CREATE"
         /\ GuildUpdate(items) \in Events /\ GuildUpdate(items).type = "GUILD_UPDATE"
<1> DEFINE n == IF part = "member" THEN Present(items) + 1 ELSE 1
<1>1. n \in Nat
  BY PresentCounts
<1>2. GuildCreate(items) = [type |-> "GUILD_CREATE", given |-> TRUE, items |-> items, count |-> n]
  BY DEF GuildCreate
<1> HIDE DEF n
<1>3. GuildCreate(items) \in Events
  BY <1>1, <1>2 DEF Events
<1> DEFINE b == part \in InGuildUpdate
           none == 0
<1>4. b \in BOOLEAN /\ none \in Nat
  OBVIOUS
<1>5. GuildUpdate(items) = [type |-> "GUILD_UPDATE", given |-> b, items |-> items, count |-> none]
  BY DEF GuildUpdate
<1> HIDE DEF b, none
<1>6. GuildUpdate(items) \in Events
  BY <1>4, <1>5 DEF Events
<1> QED BY <1>2, <1>3, <1>5, <1>6

LEMMA TruthIs ==
  ASSUME NEW t \in Truths
  PROVE  /\ t.guild \in BOOLEAN /\ t.items \in Items /\ t.gone \subseteq Ids /\ t.left \in BOOLEAN
         /\ \A i \in Ids : t.items[i] \in 0..MaxVersion
BY DEF Truths, Items

\* What the server tells of a change, and what the guild becomes.
LEMMA ChangeIs ==
  ASSUME NEW t \in Truths, NEW e, NEW u, ~Beating, part \in Parts, Change(e, t, u)
  PROVE  e \in Events /\ Fits(e) /\ u \in Truths
<1>1. /\ t.guild \in BOOLEAN /\ t.items \in Items /\ t.gone \subseteq Ids /\ t.left \in BOOLEAN
      /\ \A i \in Ids : t.items[i] \in 0..MaxVersion
  BY TruthIs
<1>2. ASSUME NEW i \in Ids, NEW v \in 1..MaxVersion, part # "emoji",
             e = [type |-> "SET", id |-> i, version |-> v, old |-> t.items[i]],
             u = [t EXCEPT !.items[i] = v]
      PROVE  e \in Events /\ Fits(e) /\ u \in Truths
  <2>1. [t.items EXCEPT ![i] = v] \in Items
    BY <1>1, <1>2, WriteOne, StateCacheAssumption
  <2>2. u = [t EXCEPT !.items = [t.items EXCEPT ![i] = v]]
    BY <1>2 DEF Truths
  <2> QED BY <1>1, <1>2, <2>1, <2>2, EventMade DEF Fits, Truths
<1>3. ASSUME NEW i \in Ids, part # "emoji", e = [type |-> "REMOVE", id |-> i],
             u = [t EXCEPT !.items[i] = 0,
                           !.gone = IF part \in MayReturn THEN t.gone ELSE t.gone \cup {i}]
      PROVE  e \in Events /\ Fits(e) /\ u \in Truths
  <2> DEFINE gone == IF part \in MayReturn THEN t.gone ELSE t.gone \cup {i}
  <2>1. [t.items EXCEPT ![i] = 0] \in Items /\ gone \subseteq Ids
    BY <1>1, WriteOne, StateCacheAssumption
  <2>2. u = [t EXCEPT !.items = [t.items EXCEPT ![i] = 0], !.gone = gone]
    BY <1>3 DEF Truths
  <2> HIDE DEF gone
  <2> QED BY <1>1, <1>3, <2>1, <2>2, EventMade DEF Fits, Truths
<1>4. ASSUME NEW items \in Items, NEW s \in SUBSET Ids, part \in InOneEvent,
             e = [type |-> "REPLACE", synced |-> s, items |-> items], u = [t EXCEPT !.items = items]
      PROVE  e \in Events /\ Fits(e) /\ u \in Truths
  BY <1>1, <1>4, EventMade DEF Fits, Truths
<1>5. CASE e = GuildUpdate(t.items) /\ u = t
  BY <1>1, <1>5, GuildEvents DEF Fits
<1>6. CASE e = [type |-> "GUILD_DELETE"] /\ u = [t EXCEPT !.guild = FALSE, !.left = TRUE]
  BY <1>1, <1>6, EventMade DEF Fits, Truths
<1>7. ASSUME NEW items \in Items, e = GuildCreate(IF part = "message" THEN NoItems ELSE items),
             u = [guild |-> TRUE, items |-> items, left |-> TRUE,
                  gone |-> IF part \in MayReturn \cup {"thread"} THEN t.gone
                           ELSE t.gone \cup {i \in Ids : t.items[i] # 0 /\ items[i] = 0}]
      PROVE  e \in Events /\ Fits(e) /\ u \in Truths
  <2>1. (IF part = "message" THEN NoItems ELSE items) \in Items
    BY NoItemsIsItems
  <2>2. e \in Events /\ Fits(e)
    BY <1>7, <2>1, GuildEvents DEF Fits
  <2>3. u \in Truths
    BY <1>1, <1>7 DEF Truths
  <2> QED BY <2>2, <2>3
<1> QED BY <1>2, <1>3, <1>4, <1>5, <1>6, <1>7 DEF Change

LEMMA ServerTells ==
  ASSUME Types, ServerNext
  PROVE  /\ ~Beating /\ part \in Parts
         /\ \E e, u : Change(e, truth, u) /\ Tell(e, u)
<1>1. ~Beating /\ part \in Parts
  BY GatewaySessionAssumption DEF ServerNext, SetItem, RemoveItem, ReplaceItems, UpdateGuild,
         LeaveGuild, JoinGuild, Tell, Types, Beating
<1>2. Used \subseteq Ids /\ UsedItems \subseteq Items
  BY GatewaySessionAssumption, <1>1 DEF Used, UsedItems, Types, Beating
<1>3. ASSUME NEW i \in Used, NEW v \in 1..MaxVersion, SetItem(i, v)
      PROVE  \E e, u : Change(e, truth, u) /\ Tell(e, u)
  BY <1>2, <1>3 DEF SetItem, Change
<1>4. ASSUME NEW i \in Used, RemoveItem(i)
      PROVE  \E e, u : Change(e, truth, u) /\ Tell(e, u)
  BY <1>2, <1>4 DEF RemoveItem, Change
<1>5. ASSUME NEW items \in UsedItems, NEW s \in Syncs, ReplaceItems(items, s)
      PROVE  \E e, u : Change(e, truth, u) /\ Tell(e, u)
  <2>1. s \in SUBSET Ids
    BY <1>2, <1>5 DEF Syncs
  <2> QED BY <1>2, <1>5, <2>1 DEF ReplaceItems, Change
<1>6. ASSUME UpdateGuild
      PROVE  \E e, u : Change(e, truth, u) /\ Tell(e, u)
  <2>1. Change(GuildUpdate(truth.items), truth, truth)
    BY <1>6 DEF UpdateGuild, Change
  <2>2. Tell(GuildUpdate(truth.items), truth)
    BY <1>6 DEF UpdateGuild
  <2> WITNESS GuildUpdate(truth.items), truth
  <2> QED BY <2>1, <2>2
<1>7. ASSUME LeaveGuild
      PROVE  \E e, u : Change(e, truth, u) /\ Tell(e, u)
  <2>1. Change([type |-> "GUILD_DELETE"], truth, [truth EXCEPT !.guild = FALSE, !.left = TRUE])
    BY <1>7 DEF LeaveGuild, Change
  <2>2. Tell([type |-> "GUILD_DELETE"], [truth EXCEPT !.guild = FALSE, !.left = TRUE])
    BY <1>7 DEF LeaveGuild
  <2> WITNESS [type |-> "GUILD_DELETE"], [truth EXCEPT !.guild = FALSE, !.left = TRUE]
  <2> QED BY <2>1, <2>2
<1>8. ASSUME NEW items \in UsedItems, JoinGuild(items)
      PROVE  \E e, u : Change(e, truth, u) /\ Tell(e, u)
  BY <1>2, <1>8 DEF JoinGuild, Change
<1> QED BY <1>1, <1>3, <1>4, <1>5, <1>6, <1>7, <1>8 DEF ServerNext

-----------------------------------------------------------------------------

(* Types.                                                                   *)

LEMMA TypesInit == Init => Types
<1> SUFFICES ASSUME Init PROVE Types
  OBVIOUS
<1> USE DEF Init
<1>1. [guild |-> TRUE, items |-> NoItems, gone |-> {}, left |-> FALSE] \in Truths
  BY NoItemsIsItems DEF Truths
<1>2. session.log \in Seq(Events) /\ Len(session.log) = 0
  BY EmptySeq
<1>3. \A g \in Generations : listener[g] = Hand("off")
  OBVIOUS
<1>4. Hand("off") \in HandTypes
  BY DEF Hand, HandTypes
<1>5. listener \in [Generations -> HandTypes]
  BY <1>4
<1>6. \A g \in Generations : listener[g].pc \notin Hands
  BY DEF Hand, Hands
<1>7. 0 \in 0..MaxGenerations
  BY GatewaySessionAssumption
<1>8. link \in [Generations -> Links(session.number)]
  BY DEF None, Links
<1>9. session \in [number : Nat, live : BOOLEAN, log : Seq(Events)]
      /\ \A n \in DOMAIN session.log : Fits(session.log[n])
  BY <1>2 DEF None
<1>10. sessionID \in 0..session.number /\ loaded \in Nat
  BY DEF None
<1> QED BY <1>1, <1>5, <1>6, <1>7, <1>8, <1>9, <1>10, NewStateType DEF Types, BeatTypes

LEMMA TypesTell ==
  ASSUME Types, NEW e, NEW u, ~Beating, part \in Parts, Change(e, truth, u), Tell(e, u)
  PROVE  Types'
<1>1. e \in Events /\ Fits(e) /\ u \in Truths
  BY ChangeIs DEF Types
<1>2. session' \in [number : Nat, live : BOOLEAN, log : Seq(Events)]
      /\ session'.number = session.number
  BY <1>1, AppendProperties DEF Types, Tell
<1>3. \A n \in DOMAIN session'.log : Fits(session'.log[n])
  <2>1. CASE session' = session
    BY <2>1 DEF Types
  <2>2. CASE session' = [session EXCEPT !.log = Append(session.log, e)]
    BY <1>1, <2>2, AppendProperties DEF Types
  <2> QED BY <2>1, <2>2 DEF Tell
<1>4. UNCHANGED <<part, link, generation, loaded, clientVars, listener, beatVars, pastVars>>
      /\ changes' = changes + 1 /\ truth' = u
  BY DEF Tell
<1> QED BY <1>1, <1>2, <1>3, <1>4 DEF Types, BeatTypes, clientVars, beatVars, pastVars, Fits, Beating

\* What has not begun has nothing; events are numbered from 1.
Begun ==
    /\ \A g \in Generations : g > generation =>
           link[g].state = "off" /\ listener[g].pc = "off" /\ beat[g] = "off" /\ ~owed[g]
    /\ loaded # None => generation \in Generations
    /\ \A g \in Generations : link[g].state = "up" => link[g].next # 0

\* A step beside the path of the events: a generation ends, or a goroutine that has no event in
\* hand goes on.
Ends   == \E g \in Generations : g <= generation /\ Finish(g)
Places == {"read", "ack", "closed", "invalid", "ended"}

Aside ==
    /\ UNCHANGED eventVars
    /\ link' = link \/ Ends
    /\ \/ listener' = listener
       \/ \E g \in Generations, pc \in Places : listener[g].pc \in {"read", "ack"} /\ Step(g, pc)

AsideNext(g) ==
    \/ Drop(g) \/ ReadClose(g) \/ ReadInvalidSession(g) \/ ListenEnds(g) \/ ReadAck(g)
    \/ StoreAck(g) \/ BeatNext(g)

LEMMA AsideSteps ==
  ASSUME Types, Begun, NEW g \in Generations, AsideNext(g)
  PROVE  Aside
<1>1. generation \in Nat /\ g \in Nat
  BY GatewaySessionAssumption DEF Types, Generations
<1>2. CASE Drop(g)
  BY <1>1, <1>2 DEF Drop, Aside, Ends, Begun
<1>3. CASE ReadClose(g) \/ ReadInvalidSession(g) \/ ListenEnds(g) \/ ReadAck(g) \/ StoreAck(g)
  BY <1>3 DEF ReadClose, ReadInvalidSession, ListenEnds, ReadAck, StoreAck, Aside, Places
<1>4. CASE Tick(g) \/ BeatEnds(g) \/ CheckAck(g) \/ Stamp(g) \/ Write(g)
  BY <1>4 DEF Tick, BeatEnds, CheckAck, Stamp, Write, Aside
<1>5. CASE MissedAck(g) \/ WriteFails(g)
  BY <1>1, <1>5 DEF MissedAck, WriteFails, Beat, Aside, Ends, Begun
<1> QED BY <1>2, <1>3, <1>4, <1>5 DEF AsideNext, BeatNext

Closed(l) == [l EXCEPT !.state = "down", !.next = 0]

LEMMA ClosedIs ==
  ASSUME NEW n \in Nat, NEW l \in Links(n)
  PROVE  /\ Closed(l) \in Links(n) /\ Closed(l).state = "down"
         /\ Closed(l).session = l.session /\ Closed(l).next = 0
BY DEF Closed, Links

\* Such a step changes the place of one listener, and may close one connection.
LEMMA AsideLink ==
  ASSUME Types, Aside
  PROVE  /\ link' \in [Generations -> Links(session.number)]
         /\ \A g \in Generations :
               link'[g] = link[g] \/ (g <= generation /\ link'[g] = Closed(link[g]))
<1>1. link \in [Generations -> Links(session.number)] /\ session.number \in Nat
  BY DEF Types
<1>2. CASE link' = link
  BY <1>1, <1>2
<1>3. ASSUME NEW h \in Generations, h <= generation, Finish(h)
      PROVE  /\ link' \in [Generations -> Links(session.number)]
             /\ \A g \in Generations :
                   link'[g] = link[g] \/ (g <= generation /\ link'[g] = Closed(link[g]))
  <2>1. link' = [link EXCEPT ![h] = Closed(link[h])]
    BY <1>3 DEF Finish, Closed
  <2>2. Closed(link[h]) \in Links(session.number)
    BY <1>1, ClosedIs
  <2> QED BY <1>1, <1>3, <2>1, <2>2
<1> QED BY <1>2, <1>3 DEF Aside, Ends

LEMMA PlaceIs ==
  ASSUME Types, NEW h \in Generations, NEW pc \in InHand \cup {"off", "read", "ack", "ended"},
         Step(h, pc)
  PROVE  /\ listener' \in [Generations -> HandTypes]
         /\ listener'[h] = [listener[h] EXCEPT !.pc = pc]
         /\ listener'[h].pc = pc /\ listener'[h].number = listener[h].number
         /\ listener'[h].event = listener[h].event
         /\ \A g \in Generations \ {h} : listener'[g] = listener[g]
<1>1. listener \in [Generations -> HandTypes]
  BY DEF Types
<1> DEFINE x == [listener[h] EXCEPT !.pc = pc]
<1>2. /\ x \in HandTypes /\ x.pc = pc /\ x.number = listener[h].number
      /\ x.event = listener[h].event
  BY <1>1 DEF HandTypes
<1>3. listener' = [listener EXCEPT ![h] = x]
  BY DEF Step
<1> HIDE DEF x
<1>4. listener'[h] = x /\ \A g \in Generations \ {h} : listener'[g] = listener[g]
  BY <1>1, <1>3
<1>5. listener' \in [Generations -> HandTypes]
  BY <1>1, <1>2, <1>3
<1>6. x = [listener[h] EXCEPT !.pc = pc]
  BY DEF x
<1> QED BY <1>2, <1>4, <1>5, <1>6

LEMMA AsideListener ==
  ASSUME Types, Aside
  PROVE  /\ listener' \in [Generations -> HandTypes]
         /\ \A g \in Generations :
               listener'[g] = listener[g]
               \/ (listener[g].pc \in {"read", "ack"} /\ listener'[g].pc \in Places)
<1>1. CASE listener' = listener
  BY <1>1 DEF Types
<1>2. ASSUME NEW h \in Generations, NEW pc \in Places, listener[h].pc \in {"read", "ack"}, Step(h, pc)
      PROVE  /\ listener' \in [Generations -> HandTypes]
             /\ \A g \in Generations :
                   listener'[g] = listener[g]
                   \/ (listener[g].pc \in {"read", "ack"} /\ listener'[g].pc \in Places)
  <2>1. pc \in InHand \cup {"off", "read", "ack", "ended"}
    BY DEF Places, InHand
  <2>2. /\ listener' \in [Generations -> HandTypes] /\ listener'[h].pc = pc
        /\ \A g \in Generations \ {h} : listener'[g] = listener[g]
    BY <1>2, <2>1, PlaceIs
  <2> QED BY <1>2, <2>2
<1> QED BY <1>1, <1>2 DEF Aside

LEMMA TypesAside ==
  ASSUME Types, Begun, NEW g \in Generations, AsideNext(g)
  PROVE  Types'
<1>1. Aside
  BY AsideSteps
<1>2. UNCHANGED eventVars
  BY <1>1 DEF Aside
<1>3. BeatTypes'
  <2>1. BeatTypes
    BY DEF Types
  <2>2. CASE Drop(g) \/ ReadClose(g) \/ ReadInvalidSession(g) \/ ListenEnds(g)
    BY <2>1, <2>2 DEF Drop, ReadClose, ReadInvalidSession, ListenEnds, beatVars, BeatTypes
  <2>3. CASE ReadAck(g) \/ StoreAck(g)
    BY <2>1, <2>3 DEF ReadAck, StoreAck, Meddles, BeatTypes
  <2>4. CASE Tick(g) \/ BeatEnds(g) \/ CheckAck(g) \/ MissedAck(g)
    BY <2>1, <2>4 DEF Tick, BeatEnds, CheckAck, MissedAck, Beat, BeatTypes
  <2>5. CASE Stamp(g)
    BY <2>1, <2>5 DEF Stamp, Beat, Meddles, BeatTypes
  <2>6. CASE Write(g)
    BY <2>1, <2>6 DEF Write, Beat, BeatTypes
  <2>7. CASE WriteFails(g)
    BY <2>1, <2>7 DEF WriteFails, Beat, BeatTypes
  <2> QED BY <2>2, <2>3, <2>4, <2>5, <2>6, <2>7 DEF AsideNext, BeatNext
<1>4. \A h \in Generations : listener'[h].pc \in Hands => listener'[h] = listener[h]
  BY <1>1, AsideListener DEF Hands, Places
<1>5. \A h \in Generations : listener'[h].pc \in Hands =>
         ~Beating /\ listener'[h].event \in Events /\ Fits(listener'[h].event)
  BY <1>4 DEF Types
<1> QED BY <1>1, <1>2, <1>3, <1>5, AsideLink, AsideListener
        DEF Types, eventVars, serverVars, clientVars, pastVars, Fits, Beating

LEMMA BegunInit == Init => Begun
BY DEF Init, Begun, Hand

LEMMA LinkMade ==
  ASSUME NEW n \in Nat, NEW l \in Links(n), NEW k \in 0..n, NEW m \in Nat,
         NEW st \in {"off", "hello", "up", "refused", "down"}
  PROVE  /\ [state |-> st, session |-> k, next |-> m] \in Links(n)
         /\ [l EXCEPT !.state = st] \in Links(n)
         /\ [l EXCEPT !.next = m] \in Links(n)
BY DEF Links

LEMMA HandMade ==
  ASSUME NEW pc \in {"off", "read", "ack", "ended"}
  PROVE  Hand(pc) \in HandTypes /\ Hand(pc).pc = pc
BY DEF Hand, HandTypes

LEMMA TypesOpen ==
  ASSUME Types, Begun, Open
  PROVE  /\ Types' /\ Begun' /\ generation' \in Generations /\ generation' = generation + 1
         /\ loaded' = sequence + 1 /\ loaded' # None
         /\ link' = [link EXCEPT ![generation'] = [link[generation'] EXCEPT !.state = "hello"]]
         /\ listener' = [listener EXCEPT ![generation'] = Hand("read")]
<1> DEFINE h == generation + 1
<1>1. generation \in 0..MaxGenerations /\ MaxGenerations \in Nat /\ sequence \in Nat
      /\ generation < MaxGenerations
  BY GatewaySessionAssumption DEF Types, Open
<1>2. h \in Generations /\ generation' = h /\ generation' \in 0..MaxGenerations /\ h # 0
  BY <1>1 DEF Generations, Open
<1>3. loaded' = sequence + 1 /\ loaded' \in Nat /\ loaded' # None
  BY <1>1 DEF Open, None
<1>4. link' = [link EXCEPT ![h] = [link[h] EXCEPT !.state = "hello"]]
  BY <1>2 DEF Open
<1>5. listener' = [listener EXCEPT ![h] = Hand("read")]
  BY <1>2 DEF Open
<1>6. link' \in [Generations -> Links(session.number)]
  BY <1>2, <1>4, LinkMade DEF Types
<1>7. listener' \in [Generations -> HandTypes]
      /\ \A g \in Generations : listener'[g].pc \in Hands => listener'[g] = listener[g]
  BY <1>2, <1>5, HandMade DEF Types, Hands
<1>8. BeatTypes'
  BY <1>2 DEF Open, Types, BeatTypes
<1>9. UNCHANGED <<serverVars, clientVars, pastVars>>
  BY DEF Open
<1>10. Types'
  BY <1>2, <1>3, <1>6, <1>7, <1>8, <1>9
     DEF Types, serverVars, clientVars, pastVars, Fits, Beating
<1>11. Begun'
  <2>1. \A g \in Generations : g > h => g > generation /\ g # h
    BY <1>1 DEF Generations
  <2>2. \A g \in Generations \ {h} :
           link'[g] = link[g] /\ listener'[g] = listener[g] /\ beat'[g] = beat[g]
    BY <1>2, <1>4, <1>5 DEF Open, Types, BeatTypes
  <2>3. owed' = owed
    BY DEF Open
  <2>4. link'[h].state = "hello"
    BY <1>2, <1>4 DEF Types, Links
  <2> QED BY <1>2, <2>1, <2>2, <2>3, <2>4 DEF Begun
<1> QED BY <1>2, <1>3, <1>4, <1>5, <1>10, <1>11

LEMMA OpeningLog ==
  ASSUME Types
  PROVE  /\ Opening \in Seq(Events) /\ Len(Opening) \in {1, 2}
         /\ Opening[1] = [type |-> "READY", listed |-> truth.guild]
         /\ \A n \in DOMAIN Opening : Fits(Opening[n])
         /\ truth.guild /\ ~Beating => Len(Opening) = 2 /\ Opening[2] = GuildCreate(Payload)
         /\ ~truth.guild \/ Beating => Len(Opening) = 1
<1> DEFINE r == [type |-> "READY", listed |-> truth.guild]
           c == GuildCreate(Payload)
<1>1. truth.guild \in BOOLEAN /\ Payload \in Items
  BY NoItemsIsItems, TruthIs DEF Types, Payload
<1>2. r \in Events /\ Fits(r)
  BY <1>1, EventMade DEF Fits
<1>3. c \in Events /\ Fits(c)
  BY <1>1, GuildEvents DEF Fits
<1>4. Opening = IF truth.guild /\ ~Beating THEN <<r, c>> ELSE <<r>>
  BY DEF Opening
<1>5. r = [type |-> "READY", listed |-> truth.guild] /\ c = GuildCreate(Payload)
  OBVIOUS
<1> HIDE DEF r, c
<1>6. CASE truth.guild /\ ~Beating
  <2>1. Opening = <<r, c>>
    BY <1>4, <1>6
  <2>2. <<r, c>> \in Seq(Events) /\ Len(<<r, c>>) = 2 /\ <<r, c>>[1] = r /\ <<r, c>>[2] = c
    BY <1>2, <1>3
  <2>3. \A n \in DOMAIN <<r, c>> : n = 1 \/ n = 2
    OBVIOUS
  <2> QED BY <1>2, <1>3, <1>5, <1>6, <2>1, <2>2, <2>3
<1>7. CASE ~truth.guild \/ Beating
  BY <1>2, <1>3, <1>4, <1>5, <1>7
<1> QED BY <1>6, <1>7

LEMMA TypesIdentify ==
  ASSUME Types, Begun, Identify
  PROVE  /\ Types' /\ Begun' /\ generation \in Generations
         /\ session'.number = session.number + 1 /\ session'.live /\ session'.log = Opening
         /\ link' = [link EXCEPT ![generation] =
                        [state |-> "up", session |-> session.number + 1, next |-> 1]]
<1>1. generation \in Generations /\ session.number \in Nat
  BY DEF Types, Begun, Identify
<1>2. /\ session' \in [number : Nat, live : BOOLEAN, log : Seq(Events)]
      /\ session'.number = session.number + 1 /\ session'.live /\ session'.log = Opening
  BY <1>1, OpeningLog DEF Identify
<1>3. link' = [link EXCEPT ![generation] =
                  [state |-> "up", session |-> session.number + 1, next |-> 1]]
  BY <1>2 DEF Identify
<1>4. \A g \in Generations : link[g] \in Links(session.number + 1)
  <2>1. \A g \in Generations : link[g] \in Links(session.number)
    BY DEF Types
  <2> QED BY <1>1, <2>1 DEF Links
<1>5. [state |-> "up", session |-> session.number + 1, next |-> 1] \in Links(session.number + 1)
  BY <1>1 DEF Links
<1>6. link' \in [Generations -> Links(session'.number)]
  BY <1>1, <1>2, <1>3, <1>4, <1>5 DEF Types
<1>7. sessionID' \in 0..session'.number /\ loaded' \in Nat
  BY <1>1, <1>2 DEF Types, Identify, clientVars, None
<1>8. UNCHANGED <<part, truth, changes, generation, clientVars, listener, beatVars, late, crossed, gap>>
  BY DEF Identify
<1>9. \A n \in DOMAIN session'.log : Fits(session'.log[n])
  BY <1>2, OpeningLog
<1>10. Types'
  BY <1>2, <1>6, <1>7, <1>8, <1>9 DEF Types, BeatTypes, clientVars, beatVars, Fits, Beating
<1>11. Begun'
  BY <1>1, <1>3, <1>8 DEF Begun, Types, Generations, beatVars, Identify
<1> QED BY <1>1, <1>2, <1>3, <1>10, <1>11

LEMMA TypesResume ==
  ASSUME Types, Begun, Resume
  PROVE  /\ Types' /\ Begun' /\ generation \in Generations
         /\ link' = [link EXCEPT ![generation] =
                        [state |-> "up", session |-> sessionID, next |-> loaded]]
<1>1. generation \in Generations /\ sessionID \in 0..session.number /\ loaded \in Nat
      /\ session.number \in Nat
  BY DEF Types, Begun, Resume
<1>2. link' = [link EXCEPT ![generation] =
                  [state |-> "up", session |-> sessionID, next |-> loaded]]
  BY DEF Resume
<1>3. link' \in [Generations -> Links(session.number)]
  <2>1. [state |-> "up", session |-> sessionID, next |-> loaded] \in Links(session.number)
    BY <1>1 DEF Links
  <2> QED BY <1>1, <1>2, <2>1 DEF Types
<1>4. UNCHANGED <<serverVars, generation, clientVars, listener, beatVars, pastVars>> /\ loaded' = 0
  BY DEF Resume, None
<1>5. Types'
  BY <1>3, <1>4 DEF Types, BeatTypes, serverVars, clientVars, beatVars, pastVars, Fits, Beating
<1>6. Begun'
  <2>1. loaded # 0
    BY DEF Resume, None
  <2> QED BY <1>1, <1>2, <1>4, <2>1 DEF Begun, Types, Generations, beatVars, None
<1> QED BY <1>1, <1>2, <1>5, <1>6

LEMMA TypesRefuse ==
  ASSUME Types, Begun, Refuse
  PROVE  /\ Types' /\ Begun' /\ generation \in Generations
         /\ link' = [link EXCEPT ![generation] =
                        [state |-> "refused", session |-> sessionID, next |-> 0]]
         /\ session'.number = session.number /\ session'.log = session.log
         /\ session'.live => session.live /\ session' = session /\ sessionID # session.number
<1>1. generation \in Generations /\ sessionID \in 0..session.number /\ session.number \in Nat
  BY DEF Types, Begun, Refuse
<1>2. link' = [link EXCEPT ![generation] =
                  [state |-> "refused", session |-> sessionID, next |-> 0]]
  BY DEF Refuse
<1>3. link' \in [Generations -> Links(session.number)]
  <2>1. [state |-> "refused", session |-> sessionID, next |-> 0] \in Links(session.number)
    BY <1>1 DEF Links
  <2> QED BY <1>1, <1>2, <2>1 DEF Types
<1>4. UNCHANGED <<part, truth, changes, generation, clientVars, listener, beatVars, pastVars>>
      /\ loaded' = 0
  BY DEF Refuse, None
<1>5. session' \in [number : Nat, live : BOOLEAN, log : Seq(Events)]
      /\ session'.number = session.number /\ session'.log = session.log
      /\ (session'.live => session.live /\ session' = session /\ sessionID # session.number)
  <2>1. CASE sessionID = session.number
    BY <2>1 DEF Refuse, Types
  <2>2. CASE sessionID # session.number
    BY <2>2 DEF Refuse, Types
  <2> QED BY <2>1, <2>2
<1>6. Types'
  BY <1>3, <1>4, <1>5 DEF Types, BeatTypes, clientVars, beatVars, pastVars, Fits, Beating
<1>7. Begun'
  BY <1>1, <1>2, <1>4 DEF Begun, Types, Generations, beatVars, None
<1> QED BY <1>1, <1>2, <1>5, <1>6, <1>7

LEMMA TypesFails ==
  ASSUME Types, Begun, AuthenticateFails
  PROVE  Types' /\ Begun' /\ generation \in Generations
BY DEF AuthenticateFails, Types, Begun, BeatTypes, serverVars, clientVars, beatVars, pastVars,
       Fits, Beating, None

LEMMA TypesRead ==
  ASSUME Types, Begun, NEW g \in Generations, Read(g)
  PROVE  /\ Types' /\ Begun' /\ link[g].next \in DOMAIN session.log /\ link[g].next \in Nat
         /\ link' = [link EXCEPT ![g] = [link[g] EXCEPT !.next = link[g].next + 1]]
         /\ listener' = [listener EXCEPT ![g] = [pc |-> "store", number |-> link[g].next,
                                                 event |-> session.log[link[g].next]]]
         /\ link[g].session \in Nat
<1> DEFINE n == link[g].next
           hand == [pc |-> "store", number |-> n, event |-> session.log[n]]
           read == [link[g] EXCEPT !.next = n + 1]
<1>1. link[g] \in Links(session.number) /\ session.log \in Seq(Events)
  BY DEF Types
<1>2. n \in Nat /\ link[g].session \in Nat /\ n <= Len(session.log) /\ n # 0
  BY <1>1 DEF Links, Read, Unread, Begun
<1>3. n \in DOMAIN session.log /\ session.log[n] \in Events /\ Fits(session.log[n])
  BY <1>1, <1>2, LenProperties, ElementOfSeq DEF Types
<1>4. hand \in HandTypes /\ hand.pc = "store" /\ hand.event = session.log[n]
  BY <1>2, <1>3 DEF HandTypes, InHand
<1>5. read \in Links(session.number) /\ read.state = "up" /\ read.next = n + 1
  BY <1>1, <1>2 DEF Links, Read, Unread
<1>6. link' = [link EXCEPT ![g] = read] /\ listener' = [listener EXCEPT ![g] = hand]
  BY DEF Read
<1>7. UNCHANGED <<serverVars, generation, loaded, clientVars, beatVars, late, crossed, gap>>
      /\ ~Beating /\ g <= generation
  BY <1>1, <1>2 DEF Read, Unread, Begun, Generations, Types
<1> HIDE DEF n, hand, read
<1>8. link' \in [Generations -> Links(session.number)] /\ listener' \in [Generations -> HandTypes]
  BY <1>4, <1>5, <1>6 DEF Types
<1>9. \A h \in Generations : listener'[h].pc \in Hands =>
         listener'[h].event \in Events /\ Fits(listener'[h].event)
  BY <1>3, <1>4, <1>6 DEF Types
<1>10. Types'
  BY <1>7, <1>8, <1>9 DEF Types, BeatTypes, serverVars, clientVars, beatVars, Fits, Beating
<1>11. Begun'
  BY <1>2, <1>5, <1>6, <1>7 DEF Begun, Types, Generations, beatVars
<1> QED BY <1>1, <1>2, <1>3, <1>6, <1>10, <1>11 DEF n, hand, read

LEMMA TypesStore ==
  ASSUME Types, Begun, NEW g \in Generations, StoreSequence(g)
  PROVE  /\ Types' /\ Begun' /\ listener' \in [Generations -> HandTypes]
         /\ listener'[g].pc = "apply" /\ listener'[g].number = listener[g].number
         /\ listener'[g].event = listener[g].event
         /\ \A h \in Generations \ {g} : listener'[h] = listener[h]
<1>1. listener[g] \in HandTypes /\ listener[g].pc = "store"
  BY DEF Types, StoreSequence
<1>2. sequence' = listener[g].number /\ sequence' \in Nat
  BY <1>1 DEF StoreSequence, HandTypes
<1>3. /\ listener' \in [Generations -> HandTypes] /\ listener'[g].pc = "apply"
      /\ listener'[g].number = listener[g].number /\ listener'[g].event = listener[g].event
      /\ \A h \in Generations \ {g} : listener'[h] = listener[h]
  BY PlaceIs DEF StoreSequence, InHand
<1>4. UNCHANGED <<serverVars, link, generation, loaded, sessionID, cache, beatVars, gap>>
      /\ late' \in BOOLEAN /\ crossed' \in BOOLEAN
  BY DEF StoreSequence, Past, Types
<1>5. \A h \in Generations : listener'[h].pc \in Hands =>
         ~Beating /\ listener'[h].event \in Events /\ Fits(listener'[h].event)
  BY <1>1, <1>3 DEF Types, Hands
<1>6. Types'
  BY <1>2, <1>3, <1>4, <1>5 DEF Types, BeatTypes, serverVars, beatVars, Fits, Beating
<1>7. Begun'
  BY <1>1, <1>3, <1>4 DEF Begun, beatVars
<1> QED BY <1>3, <1>6, <1>7

LEMMA TypesApply ==
  ASSUME Types, Begun, NEW g \in Generations, Apply(g)
  PROVE  /\ Types' /\ Begun' /\ listener' = [listener EXCEPT ![g] = Hand("read")]
         /\ Hand("read") \in HandTypes /\ Hand("read").pc = "read"
         /\ listener[g].event \in Events /\ Fits(listener[g].event)
<1>1. listener[g] \in HandTypes /\ listener[g].pc = "apply"
  BY DEF Types, Apply
<1>2. listener[g].event \in Events /\ Fits(listener[g].event)
  BY <1>1 DEF Types, Hands
<1>3. listener' = [listener EXCEPT ![g] = Hand("read")]
      /\ Hand("read") \in HandTypes /\ Hand("read").pc = "read"
  BY HandMade DEF Apply, Drops
<1>4. cache' \in CacheType
  BY <1>2, OnInterfaceType DEF Apply, Types
<1>5. sessionID' \in 0..session.number /\ gap' \in BOOLEAN
  <2>1. link[g].session \in 0..session.number
    BY DEF Types, Links
  <2> QED BY <2>1 DEF Apply, Types
<1>6. UNCHANGED <<serverVars, link, generation, loaded, sequence, beatVars>>
      /\ late' \in BOOLEAN /\ crossed' \in BOOLEAN
  BY DEF Apply, Past, Types
<1>7. listener' \in [Generations -> HandTypes]
      /\ \A h \in Generations : listener'[h].pc \in Hands => listener'[h] = listener[h]
  BY <1>3 DEF Types, Hands
<1>8. Types'
  BY <1>4, <1>5, <1>6, <1>7 DEF Types, BeatTypes, serverVars, beatVars, Fits, Beating
<1>9. Begun'
  BY <1>1, <1>3, <1>6 DEF Begun, beatVars, Types
<1> QED BY <1>2, <1>3, <1>8, <1>9

LEMMA TypesInvalid ==
  ASSUME Types, Begun, NEW g \in Generations, InvalidSession(g)
  PROVE  /\ Types' /\ Begun' /\ sessionID' = None /\ sequence' = 0
         /\ link' = [link EXCEPT ![g] = Closed(link[g])]
         /\ listener' = [listener EXCEPT ![g] = Hand("ended")]
         /\ Hand("ended").pc = "ended" /\ session'.number = session.number
<1>1. link' = [link EXCEPT ![g] = Closed(link[g])]
  BY DEF InvalidSession, Finish, Closed
<1>2. listener' = [listener EXCEPT ![g] = Hand("ended")]
      /\ Hand("ended") \in HandTypes /\ Hand("ended").pc = "ended"
  BY HandMade DEF InvalidSession, Drops
<1>3. Closed(link[g]) \in Links(session.number) /\ Closed(link[g]).state = "down"
      /\ session.number \in Nat
  BY ClosedIs DEF Types
<1>4. session' \in [number : Nat, live : BOOLEAN, log : Seq(Events)]
      /\ session'.number = session.number
      /\ \A n \in DOMAIN session'.log : Fits(session'.log[n])
  <2>1. <<>> \in Seq(Events) /\ DOMAIN <<>> = {}
    BY EmptySeq
  <2> QED BY <2>1 DEF InvalidSession, Types
<1>5. UNCHANGED <<part, truth, changes, generation, loaded, cache, beatVars, late, crossed, gap>>
  BY DEF InvalidSession
<1>6. sessionID' = None /\ sequence' = 0 /\ sessionID' \in 0..session.number
  BY <1>3 DEF InvalidSession, InvalidateGatewaySession, None
<1>7. link' \in [Generations -> Links(session.number)] /\ listener' \in [Generations -> HandTypes]
      /\ \A h \in Generations : listener'[h].pc \in Hands => listener'[h] = listener[h]
  BY <1>1, <1>2, <1>3 DEF Types, Hands
<1>8. Types'
  BY <1>4, <1>5, <1>6, <1>7 DEF Types, BeatTypes, beatVars, Fits, Beating
<1>9. g <= generation
  BY DEF InvalidSession, Begun, Types, Generations
<1>10. Begun'
  BY <1>1, <1>2, <1>3, <1>5, <1>9 DEF Begun, beatVars, Types, Generations
<1> QED BY <1>1, <1>2, <1>4, <1>6, <1>8, <1>10

LEMMA BegunTell ==
  ASSUME Begun, NEW e, NEW u, Tell(e, u)
  PROVE  Begun'
BY DEF Begun, Tell, beatVars

LEMMA BegunAside ==
  ASSUME Types, Begun, NEW g \in Generations, AsideNext(g)
  PROVE  Begun'
<1>1. Aside
  BY AsideSteps
<1>2. generation' = generation /\ loaded' = loaded
  BY <1>1 DEF Aside, eventVars
<1>3. \A h \in Generations : h > generation => link'[h].state = "off" /\ listener'[h].pc = "off"
  BY <1>1, AsideLink, AsideListener DEF Begun, Types, Generations
<1>4. \A h \in Generations : link'[h].state = "up" => link'[h] = link[h]
  <2>1. \A h \in Generations : link[h] \in Links(session.number) /\ session.number \in Nat
    BY DEF Types
  <2> QED BY <1>1, <2>1, AsideLink, ClosedIs
<1>5. \A h \in Generations : h > generation => beat'[h] = "off" /\ ~owed'[h]
  <2> SUFFICES ASSUME NEW h \in Generations, h > generation
               PROVE  beat'[h] = "off" /\ ~owed'[h]
    OBVIOUS
  <2>1. beat[h] = "off" /\ ~owed[h] /\ BeatTypes
    BY DEF Begun, Types
  <2>2. CASE Drop(g) \/ ReadClose(g) \/ ReadInvalidSession(g) \/ ListenEnds(g)
    BY <2>1, <2>2 DEF Drop, ReadClose, ReadInvalidSession, ListenEnds, beatVars
  <2>3. CASE ReadAck(g) \/ StoreAck(g)
    BY <2>1, <2>3 DEF ReadAck, StoreAck, BeatTypes
  <2>4. CASE Tick(g) \/ BeatEnds(g) \/ CheckAck(g) \/ MissedAck(g) \/ Stamp(g) \/ WriteFails(g)
    BY <2>1, <2>4 DEF Tick, BeatEnds, CheckAck, MissedAck, Stamp, WriteFails, Beat, BeatTypes
  <2>5. CASE Write(g)
    BY <2>1, <2>5 DEF Write, Beat, BeatTypes
  <2> QED BY <2>2, <2>3, <2>4, <2>5 DEF AsideNext, BeatNext
<1> QED BY <1>2, <1>3, <1>4, <1>5 DEF Begun

\* The steps of Next.
LEMMA Steps ==
  ASSUME Next
  PROVE  \/ ServerNext \/ OpenNext
         \/ \E g \in Generations : \/ AsideNext(g) \/ Read(g) \/ StoreSequence(g) \/ Apply(g)
                                   \/ InvalidSession(g)
BY DEF Next, ListenNext, AsideNext

LEMMA TypesStep == Types /\ Begun /\ [Next]_vars => Types' /\ Begun'
<1> SUFFICES ASSUME Types, Begun, [Next]_vars PROVE Types' /\ Begun'
  OBVIOUS
<1>1. CASE UNCHANGED vars
  BY <1>1 DEF Types, BeatTypes, Begun, vars, eventVars, serverVars, clientVars, beatVars, pastVars,
              Fits, Beating
<1>2. CASE ServerNext
  <2>1. PICK e, u : Change(e, truth, u) /\ Tell(e, u)
    BY <1>2, ServerTells
  <2> QED BY <1>2, <2>1, ServerTells, TypesTell, BegunTell
<1>3. CASE OpenNext
  BY <1>3, TypesOpen, TypesIdentify, TypesResume, TypesRefuse, TypesFails DEF OpenNext
<1>4. ASSUME NEW g \in Generations, AsideNext(g)
      PROVE  Types' /\ Begun'
  BY <1>4, TypesAside, BegunAside
<1>5. ASSUME NEW g \in Generations, Read(g) \/ StoreSequence(g) \/ Apply(g) \/ InvalidSession(g)
      PROVE  Types' /\ Begun'
  BY <1>5, TypesRead, TypesStore, TypesApply, TypesInvalid
<1> QED BY <1>1, <1>2, <1>3, <1>4, <1>5, Steps

LEMMA TypesAlways == Spec => [](Types /\ Begun)
BY TypesInit, BegunInit, TypesStep, PTL DEF Spec

-----------------------------------------------------------------------------
(* Which events have been read.                                              *)

\* Only the newest generation has a connection that lives.  While it connects its listener
\* has no event in hand; once it is up it is the connection of the newest session.
LinkOf(g) ==
    /\ link[g].state \in {"hello", "up", "refused"} => g = generation
    /\ link[g].state = "hello" => loaded # None
    /\ g = generation /\ loaded # None =>
           link[g].state \in {"hello", "down"} /\ listener[g].pc \notin Hands
    /\ link[g].state = "refused" => listener[g].pc \notin Hands
    /\ link[g].state = "up" => session.live /\ link[g].session = session.number
                                  /\ link[g].next <= Len(session.log) + 1

\* What a listener has in hand is an event of the session of its connection.
HandOf(g) ==
    listener[g].pc \in Hands =>
        /\ link[g].session # None
        /\ g = generation => link[g].session = session.number
        /\ session.live /\ link[g].session = session.number =>
               /\ listener[g].number \in DOMAIN session.log
               /\ listener[g].event = session.log[listener[g].number]

\* A session that lives is the one the Session has, or will have once READY is applied.
LinkInv ==
    /\ \A g \in Generations : LinkOf(g) /\ HandOf(g)
    /\ session.live => session.number # None
    /\ session.live /\ ~crossed => sessionID \in {None, session.number}

\* While the session lives, all events up to each of these were read: those a connection
\* was sent or is not sent, those up to an event in hand, and up to the stored sequence, if it
\* is of this session.
ReadInv ==
    session.live /\ ~crossed =>
        /\ \A g \in Generations : link[g].state = "up" => 1..link[g].next - 1 \subseteq taken
        /\ \A g \in Generations : listener[g].pc \in Hands /\ link[g].session = session.number
               => 1..listener[g].number \subseteq taken
        /\ sessionID = session.number => 1..sequence \subseteq taken
        /\ \A g \in Generations :
               g = generation /\ listener[g].pc = "apply" /\ listener[g].event.type = "READY"
               => 1..sequence \subseteq taken
        /\ loaded # None /\ sessionID = session.number => 1..loaded - 1 \subseteq taken

TakenInv == taken \subseteq DOMAIN session.log

PathInv == Types /\ Begun /\ LinkInv /\ ReadInv /\ TakenInv

LEMMA PathInit == Init => PathInv
<1> SUFFICES ASSUME Init PROVE PathInv
  OBVIOUS
<1>1. Types /\ Begun
  BY TypesInit, BegunInit
<1>2. \A g \in Generations : listener[g].pc = "off" /\ link[g].state = "off"
  BY DEF Init, Hand
<1>3. LinkInv /\ ReadInv /\ TakenInv
  BY <1>2 DEF Init, LinkInv, LinkOf, HandOf, ReadInv, TakenInv, Hands, None
<1> QED BY <1>1, <1>3 DEF PathInv

LEMMA PathTell ==
  ASSUME PathInv, NEW e \in Events, NEW u, Tell(e, u)
  PROVE  LinkInv' /\ ReadInv' /\ TakenInv'
<1>1. session \in [number : Nat, live : BOOLEAN, log : Seq(Events)]
  BY DEF PathInv, Types
<1>2. /\ session'.number = session.number /\ session'.live = session.live
      /\ DOMAIN session.log \subseteq DOMAIN session'.log
      /\ \A n \in DOMAIN session.log : session'.log[n] = session.log[n]
      /\ Len(session'.log) \in Nat /\ Len(session.log) \in Nat
      /\ Len(session.log) <= Len(session'.log)
  <2>1. CASE session' = session
    BY <1>1, <2>1, LenProperties
  <2>2. CASE session' = [session EXCEPT !.log = Append(session.log, e)]
    <3> DEFINE s == session.log
               r == Append(s, e)
    <3>1. s \in Seq(Events) /\ session'.log = r
      BY <1>1, <2>2
    <3>2. /\ Len(r) = Len(s) + 1 /\ \A n \in 1..Len(s) : r[n] = s[n]
          /\ r \in Seq(Events)
      BY <3>1, AppendProperties
    <3>3. DOMAIN s = 1..Len(s) /\ DOMAIN r = 1..Len(r) /\ Len(s) \in Nat
      BY <3>1, <3>2, LenProperties
    <3>4. session'.number = session.number /\ session'.live = session.live
      BY <1>1, <2>2
    <3> HIDE DEF r
    <3> QED BY <3>1, <3>2, <3>3, <3>4
  <2> QED BY <2>1, <2>2 DEF Tell
<1>3. UNCHANGED <<link, generation, loaded, sessionID, sequence, listener, taken, crossed>>
  BY DEF Tell, clientVars, pastVars
<1>4. \A g \in Generations : LinkOf(g)' /\ HandOf(g)'
  <2> TAKE g \in Generations
  <2>1. LinkOf(g) /\ HandOf(g) /\ link[g].next \in Nat
    BY DEF PathInv, LinkInv, Types, Links
  <2>2. LinkOf(g)'
    BY <1>2, <1>3, <2>1 DEF LinkOf
  <2>3. HandOf(g)'
    BY <1>2, <1>3, <2>1 DEF HandOf
  <2> QED BY <2>2, <2>3
<1>5. LinkInv'
  BY <1>2, <1>3, <1>4 DEF PathInv, LinkInv
<1>6. ReadInv'
  BY <1>2, <1>3 DEF PathInv, ReadInv
<1> QED BY <1>2, <1>3, <1>5, <1>6 DEF PathInv, TakenInv

LEMMA PathAside ==
  ASSUME PathInv, NEW h \in Generations, AsideNext(h)
  PROVE  LinkInv' /\ ReadInv' /\ TakenInv'
<1>1. Aside /\ Types
  BY AsideSteps DEF PathInv
<1>2. UNCHANGED <<session, generation, loaded, sessionID, sequence, taken, crossed>>
  BY <1>1 DEF Aside, eventVars, serverVars, clientVars, pastVars
<1>3. \A g \in Generations :
         /\ link'[g].state = "down" \/ link'[g] = link[g]
         /\ link'[g].session = link[g].session
  <2>1. \A g \in Generations : link[g] \in Links(session.number) /\ session.number \in Nat
    BY <1>1 DEF Types
  <2> QED BY <1>1, <2>1, AsideLink, ClosedIs
<1>4. \A g \in Generations : listener'[g].pc \in Hands => listener'[g] = listener[g]
  BY <1>1, AsideListener DEF Places, Hands
<1>5. \A g \in Generations : LinkOf(g)' /\ HandOf(g)'
  <2> TAKE g \in Generations
  <2>1. LinkOf(g) /\ HandOf(g)
    BY DEF PathInv, LinkInv
  <2>2. LinkOf(g)'
    BY <1>2, <1>3, <1>4, <2>1 DEF LinkOf
  <2>3. HandOf(g)'
    BY <1>2, <1>3, <1>4, <2>1 DEF HandOf
  <2> QED BY <2>2, <2>3
<1>6. LinkInv'
  BY <1>2, <1>5 DEF PathInv, LinkInv
<1>7. ReadInv'
  <2>1. \A g \in Generations : listener'[g].pc = "apply" => listener'[g] = listener[g]
    BY <1>4 DEF Hands
  <2> QED BY <1>2, <1>3, <1>4, <2>1 DEF PathInv, ReadInv
<1> QED BY <1>2, <1>6, <1>7 DEF PathInv, TakenInv

LEMMA PathOpen ==
  ASSUME PathInv, Open
  PROVE  LinkInv' /\ ReadInv' /\ TakenInv'
<1> DEFINE h == generation'
<1>1. /\ h \in Generations /\ h = generation + 1 /\ loaded' = sequence + 1 /\ loaded' # None
      /\ link' = [link EXCEPT ![h] = [link[h] EXCEPT !.state = "hello"]]
      /\ listener' = [listener EXCEPT ![h] = Hand("read")]
  BY TypesOpen DEF PathInv
<1>2. UNCHANGED <<session, sessionID, sequence, taken, crossed>> /\ loaded = None
      /\ (generation # 0 => link[generation].state = "down")
  BY DEF Open, serverVars, clientVars, pastVars, Ended
<1>3. \A g \in Generations \ {h} : link'[g] = link[g] /\ listener'[g] = listener[g]
  BY <1>1 DEF PathInv, Types
<1>4. link'[h].state = "hello" /\ listener'[h].pc = "read"
  BY <1>1, HandMade DEF PathInv, Types, Links
<1>5. \A g \in Generations \ {h} : link[g].state \notin {"hello", "up", "refused"}
  BY <1>2 DEF PathInv, LinkInv, LinkOf, Generations
<1>6. \A g \in Generations : LinkOf(g)' /\ HandOf(g)'
  <2> TAKE g \in Generations
  <2>1. LinkOf(g) /\ HandOf(g)
    BY DEF PathInv, LinkInv
  <2>2. CASE g = h
    BY <1>1, <1>4, <2>2 DEF LinkOf, HandOf, Hands
  <2>3. CASE g # h
    BY <1>2, <1>3, <1>5, <2>1, <2>3 DEF LinkOf, HandOf
  <2> QED BY <2>2, <2>3
<1>7. LinkInv'
  BY <1>2, <1>6 DEF PathInv, LinkInv
<1>8. ReadInv'
  <2>1. loaded' - 1 = sequence
    BY <1>1 DEF PathInv, Types
  <2>2. \A g \in Generations : listener'[g].pc \in Hands => g # h /\ listener'[g] = listener[g]
    BY <1>3, <1>4 DEF Hands
  <2>3. \A g \in Generations : link'[g].state # "up"
    BY <1>3, <1>4, <1>5
  <2> QED BY <1>2, <1>3, <1>4, <2>1, <2>2, <2>3 DEF PathInv, ReadInv
<1> QED BY <1>2, <1>7, <1>8 DEF PathInv, TakenInv

LEMMA PathIdentify ==
  ASSUME PathInv, Identify
  PROVE  LinkInv' /\ ReadInv' /\ TakenInv'
<1> DEFINE m == session.number + 1
           up == [state |-> "up", session |-> m, next |-> 1]
<1>1. /\ generation \in Generations /\ session'.number = m /\ session'.live
      /\ session'.log = Opening /\ link' = [link EXCEPT ![generation] = up]
      /\ session.number \in Nat
  BY TypesIdentify DEF PathInv, Types
<1>2. UNCHANGED <<generation, sessionID, sequence, listener, crossed>> /\ loaded' = None
      /\ taken' = {} /\ sessionID = None /\ loaded # None
  BY DEF Identify, clientVars
<1>3. Len(session'.log) \in Nat
  BY <1>1, OpeningLog DEF PathInv
<1>4. link'[generation] = up /\ \A g \in Generations \ {generation} : link'[g] = link[g]
  BY <1>1 DEF PathInv, Types
<1>5. up.state = "up" /\ up.session = m /\ up.next = 1
  OBVIOUS
<1>6. \A g \in Generations : link[g].session \in 0..session.number
  BY DEF PathInv, Types, Links
<1> HIDE DEF up
<1>7. \A g \in Generations : LinkOf(g) /\ HandOf(g)
  BY DEF PathInv, LinkInv
<1>8. listener[generation].pc \notin Hands
  BY <1>1, <1>2, <1>7 DEF LinkOf
<1>9. \A g \in Generations : LinkOf(g)' /\ HandOf(g)'
  <2> TAKE g \in Generations
  <2>2. CASE g = generation
    BY <1>1, <1>2, <1>3, <1>4, <1>5, <1>8, <2>2 DEF LinkOf, HandOf
  <2>3. CASE g # generation
    BY <1>1, <1>2, <1>4, <1>6, <1>7, <2>3 DEF LinkOf, HandOf
  <2> QED BY <2>2, <2>3
<1>10. LinkInv'
  BY <1>1, <1>2, <1>9 DEF LinkInv, None
<1>11. ReadInv'
  <2>1. \A g \in Generations : link'[g].state = "up" => g = generation /\ link'[g].next - 1 = 0
    BY <1>4, <1>5, <1>7 DEF LinkOf
  <2>2. \A g \in Generations : listener'[g].pc \in Hands => link'[g].session # m /\ g # generation
    BY <1>1, <1>2, <1>4, <1>6, <1>8
  <2>3. \A g \in Generations : listener'[g].pc = "apply" => g # generation
    BY <2>2 DEF Hands
  <2> QED BY <1>1, <1>2, <2>1, <2>2, <2>3 DEF ReadInv, None
<1> QED BY <1>2, <1>10, <1>11 DEF TakenInv

LEMMA PathResume ==
  ASSUME PathInv, Resume
  PROVE  LinkInv' /\ ReadInv' /\ TakenInv'
<1> DEFINE up == [state |-> "up", session |-> sessionID, next |-> loaded]
<1>1. generation \in Generations /\ link' = [link EXCEPT ![generation] = up]
  BY TypesResume DEF PathInv
<1>2. UNCHANGED <<session, generation, sessionID, sequence, listener, taken, crossed>>
      /\ loaded' = None /\ loaded # None /\ sessionID = session.number /\ session.live
      /\ loaded - 1 <= Len(session.log)
  BY DEF Resume, serverVars, clientVars, pastVars
<1>3. link'[generation] = up /\ \A g \in Generations \ {generation} : link'[g] = link[g]
  BY <1>1 DEF PathInv, Types
<1>4. up.state = "up" /\ up.session = sessionID /\ up.next = loaded /\ loaded \in Nat
      /\ Len(session.log) \in Nat
  BY LenProperties DEF PathInv, Types
<1> HIDE DEF up
<1>5. \A g \in Generations : LinkOf(g) /\ HandOf(g)
  BY DEF PathInv, LinkInv
<1>6. listener[generation].pc \notin Hands
  BY <1>1, <1>2, <1>5 DEF LinkOf
<1>7. \A g \in Generations : LinkOf(g)' /\ HandOf(g)'
  <2> TAKE g \in Generations
  <2>1. CASE g = generation
    BY <1>2, <1>3, <1>4, <1>6, <2>1 DEF LinkOf, HandOf
  <2>2. CASE g # generation
    BY <1>2, <1>3, <1>5, <2>2 DEF LinkOf, HandOf
  <2> QED BY <2>1, <2>2
<1>8. LinkInv'
  BY <1>2, <1>7 DEF PathInv, LinkInv
<1>9. ReadInv'
  <2>1. \A g \in Generations : listener[g].pc \in Hands => g # generation /\ link'[g] = link[g]
    BY <1>3, <1>6
  <2>2. \A g \in Generations : listener[g].pc = "apply" => listener[g].pc \in Hands
    BY DEF Hands
  <2> QED BY <1>2, <1>3, <1>4, <2>1, <2>2 DEF PathInv, ReadInv
<1> QED BY <1>2, <1>8, <1>9 DEF PathInv, TakenInv

LEMMA PathRefuse ==
  ASSUME PathInv, Refuse
  PROVE  LinkInv' /\ ReadInv' /\ TakenInv'
<1> DEFINE refused == [state |-> "refused", session |-> sessionID, next |-> 0]
<1>1. /\ generation \in Generations /\ link' = [link EXCEPT ![generation] = refused]
      /\ session'.number = session.number /\ session'.log = session.log
      /\ session'.live => session.live /\ session' = session /\ sessionID # session.number
  BY TypesRefuse DEF PathInv
<1>2. UNCHANGED <<generation, sessionID, sequence, listener, taken, crossed>>
      /\ loaded' = None /\ loaded # None
  BY DEF Refuse, clientVars, pastVars
<1>3. link'[generation] = refused /\ \A g \in Generations \ {generation} : link'[g] = link[g]
  BY <1>1 DEF PathInv, Types
<1>4. refused.state = "refused" /\ refused.session = sessionID
  OBVIOUS
<1> HIDE DEF refused
<1>5. \A g \in Generations : LinkOf(g) /\ HandOf(g)
  BY DEF PathInv, LinkInv
<1>6. listener[generation].pc \notin Hands
  BY <1>1, <1>2, <1>5 DEF LinkOf
<1>7. \A g \in Generations : LinkOf(g)' /\ HandOf(g)'
  <2> TAKE g \in Generations
  <2>1. CASE g = generation
    BY <1>2, <1>3, <1>4, <1>6, <2>1 DEF LinkOf, HandOf
  <2>2. CASE g # generation
    BY <1>1, <1>2, <1>3, <1>5, <2>2 DEF LinkOf, HandOf
  <2> QED BY <2>1, <2>2
<1>8. LinkInv'
  BY <1>1, <1>2, <1>7 DEF PathInv, LinkInv
<1>9. ReadInv'
  <2>1. \A g \in Generations : listener[g].pc \in Hands => g # generation /\ link'[g] = link[g]
    BY <1>3, <1>6
  <2>2. \A g \in Generations : listener[g].pc = "apply" => listener[g].pc \in Hands
    BY DEF Hands
  <2> QED BY <1>1, <1>2, <1>3, <1>4, <2>1, <2>2 DEF PathInv, ReadInv
<1> QED BY <1>1, <1>2, <1>8, <1>9 DEF PathInv, TakenInv

LEMMA PathFails ==
  ASSUME PathInv, AuthenticateFails
  PROVE  LinkInv' /\ ReadInv' /\ TakenInv'
<1>1. UNCHANGED <<session, link, generation, sessionID, sequence, listener, taken, crossed>>
      /\ loaded' = None /\ loaded # None /\ link[generation].state = "down"
  BY DEF AuthenticateFails, Ended, serverVars, clientVars, pastVars
<1>2. \A g \in Generations : LinkOf(g)' /\ HandOf(g)'
  BY <1>1 DEF PathInv, LinkInv, LinkOf, HandOf
<1> QED BY <1>1, <1>2 DEF PathInv, LinkInv, ReadInv, TakenInv

LEMMA PathRead ==
  ASSUME PathInv, NEW h \in Generations, Read(h)
  PROVE  LinkInv' /\ ReadInv' /\ TakenInv'
<1> DEFINE n == link[h].next
           hand == [pc |-> "store", number |-> n, event |-> session.log[n]]
           read == [link[h] EXCEPT !.next = n + 1]
<1>1. /\ n \in DOMAIN session.log /\ n \in Nat
      /\ link' = [link EXCEPT ![h] = read] /\ listener' = [listener EXCEPT ![h] = hand]
  BY TypesRead DEF PathInv
<1>2. UNCHANGED <<session, generation, loaded, sessionID, sequence, crossed>>
      /\ taken' = taken \cup {n} /\ link[h].state = "up" /\ n <= Len(session.log)
  BY DEF Read, Unread, serverVars, clientVars
<1>3. /\ link'[h] = read /\ \A g \in Generations \ {h} : link'[g] = link[g]
      /\ listener'[h] = hand /\ \A g \in Generations \ {h} : listener'[g] = listener[g]
  BY <1>1 DEF PathInv, Types
<1>4. read.state = "up" /\ read.session = link[h].session /\ read.next = n + 1
  BY <1>2 DEF PathInv, Types, Links
<1>5. hand.pc = "store" /\ hand.number = n /\ hand.event = session.log[n]
  OBVIOUS
<1>6. \A g \in Generations : LinkOf(g) /\ HandOf(g)
  BY DEF PathInv, LinkInv
<1>7. /\ h = generation /\ session.live /\ link[h].session = session.number /\ loaded = None
      /\ session.number # None
  BY <1>2, <1>6 DEF LinkOf, PathInv, LinkInv
<1>8. Len(session.log) \in Nat
  BY LenProperties DEF PathInv, Types
<1> HIDE DEF read, hand, n
<1>9. \A g \in Generations : LinkOf(g)' /\ HandOf(g)'
  <2> TAKE g \in Generations
  <2>1. CASE g = h
    <3>1. LinkOf(g)'
      BY <1>1, <1>2, <1>3, <1>4, <1>7, <1>8, <2>1 DEF LinkOf
    <3>2. HandOf(g)'
      BY <1>1, <1>2, <1>3, <1>4, <1>5, <1>7, <2>1 DEF HandOf
    <3> QED BY <3>1, <3>2
  <2>2. CASE g # h
    BY <1>2, <1>3, <1>6, <2>2 DEF LinkOf, HandOf
  <2> QED BY <2>1, <2>2
<1>10. LinkInv'
  BY <1>2, <1>9 DEF PathInv, LinkInv
<1>11. ReadInv'
  <2> SUFFICES ASSUME session.live, ~crossed PROVE ReadInv'
    BY <1>2 DEF ReadInv
  <2>1. 1..n - 1 \subseteq taken
    BY <1>2 DEF PathInv, ReadInv, n
  <2>2. 1..n \subseteq taken'
    BY <1>1, <1>2, <2>1
  <2>3. \A g \in Generations : link'[g].state = "up" => 1..link'[g].next - 1 \subseteq taken'
    BY <1>1, <1>2, <1>3, <1>4, <2>2 DEF PathInv, ReadInv
  <2>4. \A g \in Generations : listener'[g].pc \in Hands /\ link'[g].session = session.number
               => 1..listener'[g].number \subseteq taken'
    BY <1>2, <1>3, <1>5, <2>2 DEF PathInv, ReadInv
  <2>5. listener'[generation].pc # "apply"
    BY <1>3, <1>5, <1>7
  <2> QED BY <1>2, <1>7, <2>3, <2>4, <2>5 DEF PathInv, ReadInv
<1>12. TakenInv'
  BY <1>1, <1>2 DEF PathInv, TakenInv
<1> QED BY <1>10, <1>11, <1>12

LEMMA PathStore ==
  ASSUME PathInv, NEW h \in Generations, StoreSequence(h)
  PROVE  LinkInv' /\ ReadInv' /\ TakenInv'
<1>1. /\ listener'[h].pc = "apply" /\ listener'[h].number = listener[h].number
      /\ listener'[h].event = listener[h].event
      /\ \A g \in Generations \ {h} : listener'[g] = listener[g]
  BY TypesStore DEF PathInv
<1>2. UNCHANGED <<session, link, generation, loaded, sessionID, taken>>
      /\ listener[h].pc = "store" /\ sequence' = listener[h].number
      /\ crossed' = (crossed \/ (h # generation /\ sessionID # link[h].session))
  BY DEF StoreSequence, Past, serverVars
<1>3. \A g \in Generations : LinkOf(g) /\ HandOf(g)
  BY DEF PathInv, LinkInv
<1>4. listener[h].pc \in Hands /\ "apply" \in Hands
  BY <1>2 DEF Hands
<1>5. \A g \in Generations : /\ listener'[g].pc \in Hands <=> listener[g].pc \in Hands
                             /\ listener'[g].number = listener[g].number
                             /\ listener'[g].event = listener[g].event
  BY <1>1, <1>4
<1>6. \A g \in Generations : LinkOf(g)' /\ HandOf(g)'
  BY <1>2, <1>3, <1>5 DEF LinkOf, HandOf
<1>7. LinkInv'
  BY <1>2, <1>6 DEF PathInv, LinkInv
<1>8. ReadInv'
  <2> SUFFICES ASSUME session.live, ~crossed' PROVE ReadInv'
    BY <1>2 DEF ReadInv
  <2>1. ~crossed /\ (h # generation => sessionID = link[h].session)
    BY <1>2
  <2>2. link[h].session # None /\ sessionID \in {None, session.number}
    BY <1>3, <1>4, <2>1 DEF HandOf, PathInv, LinkInv
  <2>3. link[h].session = session.number
    BY <1>3, <1>4, <2>1, <2>2 DEF HandOf
  <2>4. 1..sequence' \subseteq taken
    BY <1>2, <1>4, <2>1, <2>3 DEF PathInv, ReadInv
  <2> QED BY <1>2, <1>5, <2>1, <2>4 DEF PathInv, ReadInv
<1> QED BY <1>2, <1>7, <1>8 DEF PathInv, TakenInv

LEMMA PathApply ==
  ASSUME PathInv, NEW h \in Generations, Apply(h)
  PROVE  LinkInv' /\ ReadInv' /\ TakenInv'
<1>1. /\ listener'[h].pc = "read" /\ \A g \in Generations \ {h} : listener'[g] = listener[g]
  BY TypesApply DEF PathInv, Types
<1>2. UNCHANGED <<session, link, generation, loaded, sequence, taken>>
      /\ listener[h].pc = "apply"
      /\ crossed' = (crossed \/ (h # generation /\ sessionID # link[h].session))
      /\ sessionID' = IF listener[h].event.type = "READY" THEN link[h].session ELSE sessionID
  BY DEF Apply, Past, serverVars
<1>3. \A g \in Generations : LinkOf(g) /\ HandOf(g)
  BY DEF PathInv, LinkInv
<1>4. \A g \in Generations : listener'[g].pc \in Hands => listener'[g] = listener[g] /\ g # h
  BY <1>1 DEF Hands
<1>5. \A g \in Generations : LinkOf(g)' /\ HandOf(g)'
  <2> TAKE g \in Generations
  <2>1. LinkOf(g)'
    BY <1>2, <1>3, <1>4 DEF LinkOf
  <2>2. HandOf(g)'
    BY <1>2, <1>3, <1>4 DEF HandOf
  <2> QED BY <2>1, <2>2
<1>6. listener[h].pc \in Hands
  BY <1>2 DEF Hands
\* Only the newest generation can bring a session id that is new.
<1>7. ~crossed' => ~crossed /\ (sessionID' = sessionID \/
         (h = generation /\ listener[h].event.type = "READY" /\ sessionID' = session.number))
  BY <1>2, <1>3, <1>6 DEF HandOf
<1>8. LinkInv'
  BY <1>2, <1>5, <1>7 DEF PathInv, LinkInv
<1>9. ReadInv'
  <2> SUFFICES ASSUME session.live, ~crossed' PROVE ReadInv'
    BY <1>2 DEF ReadInv
  <2>1. h = generation => loaded = None
    BY <1>3, <1>6 DEF LinkOf
  <2>2. sessionID' = session.number => 1..sequence \subseteq taken
    BY <1>2, <1>7 DEF PathInv, ReadInv
  <2>3. loaded # None => sessionID' = sessionID
    BY <1>7, <2>1
  <2>4. \A g \in Generations : listener'[g].pc = "apply" => listener'[g] = listener[g]
    BY <1>4 DEF Hands
  <2> QED BY <1>2, <1>4, <1>7, <2>2, <2>3, <2>4 DEF PathInv, ReadInv
<1> QED BY <1>2, <1>8, <1>9 DEF PathInv, TakenInv

LEMMA PathInvalid ==
  ASSUME PathInv, NEW h \in Generations, InvalidSession(h)
  PROVE  LinkInv' /\ ReadInv' /\ TakenInv'
<1>1. /\ sessionID' = None /\ sequence' = 0 /\ session'.number = session.number
      /\ link' = [link EXCEPT ![h] = Closed(link[h])]
      /\ listener' = [listener EXCEPT ![h] = Hand("ended")] /\ Hand("ended").pc = "ended"
  BY TypesInvalid DEF PathInv
<1>2. UNCHANGED <<generation, loaded, crossed>>
      /\ IF h = generation THEN ~session'.live /\ taken' = {} ELSE UNCHANGED <<session, taken>>
  BY DEF InvalidSession, PathInv, Types
<1>3. \A g \in Generations \ {h} : link'[g] = link[g] /\ listener'[g] = listener[g]
  BY <1>1 DEF PathInv, Types
<1>4. link'[h].state = "down" /\ listener'[h].pc \notin Hands
  BY <1>1, ClosedIs DEF PathInv, Types, Hands
<1>5. \A g \in Generations : LinkOf(g) /\ HandOf(g)
  BY DEF PathInv, LinkInv
<1>6. \A g \in Generations : LinkOf(g)' /\ HandOf(g)'
  <2> TAKE g \in Generations
  <2>1. CASE g = h
    BY <1>4, <2>1 DEF LinkOf, HandOf
  <2>2. CASE g # h
    <3>1. LinkOf(g)'
      BY <1>2, <1>3, <1>5, <2>2 DEF LinkOf
    <3>2. HandOf(g)'
      BY <1>1, <1>2, <1>3, <1>5, <2>2 DEF HandOf
    <3> QED BY <3>1, <3>2
  <2> QED BY <2>1, <2>2
<1>7. LinkInv'
  BY <1>1, <1>2, <1>6 DEF PathInv, LinkInv
<1>8. ReadInv'
  <2> SUFFICES ASSUME session'.live, ~crossed PROVE ReadInv'
    BY <1>2 DEF ReadInv
  <2>1. h # generation /\ session' = session /\ taken' = taken /\ session.number # None
    BY <1>2 DEF PathInv, LinkInv
  <2>2. \A g \in Generations : listener'[g].pc \in Hands => g # h
    BY <1>4
  <2>3. 1..sequence' = {}
    BY <1>1
  <2>4. \A g \in Generations : link'[g].state = "up" => 1..link'[g].next - 1 \subseteq taken
    BY <1>2, <1>3, <1>4, <2>1 DEF PathInv, ReadInv
  <2>5. \A g \in Generations : listener'[g].pc \in Hands /\ link'[g].session = session.number
               => 1..listener'[g].number \subseteq taken
    BY <1>2, <1>3, <2>1, <2>2 DEF PathInv, ReadInv
  <2> QED BY <1>1, <2>1, <2>3, <2>4, <2>5 DEF ReadInv
<1>9. TakenInv'
  BY <1>2 DEF PathInv, TakenInv
<1> QED BY <1>7, <1>8, <1>9

LEMMA PathStep == PathInv /\ [Next]_vars => PathInv'
<1> SUFFICES ASSUME PathInv, [Next]_vars PROVE PathInv'
  OBVIOUS
<1>1. Types' /\ Begun'
  BY TypesStep DEF PathInv
<1>2. CASE UNCHANGED vars
  <2>1. \A g \in Generations : LinkOf(g)' /\ HandOf(g)'
    BY <1>2 DEF PathInv, LinkInv, LinkOf, HandOf, vars, eventVars, serverVars
  <2> QED BY <1>1, <1>2, <2>1 DEF PathInv, LinkInv, ReadInv, TakenInv, vars, eventVars, serverVars,
                                 clientVars, pastVars
<1>3. CASE ServerNext
  <2>1. PICK e, u : Change(e, truth, u) /\ Tell(e, u)
    BY <1>3, ServerTells DEF PathInv
  <2>2. e \in Events
    BY <1>3, <2>1, ServerTells, ChangeIs DEF PathInv, Types
  <2> QED BY <1>1, <2>1, <2>2, PathTell DEF PathInv
<1>4. CASE OpenNext
  <2>1. LinkInv' /\ ReadInv' /\ TakenInv'
    BY <1>4, PathOpen, PathIdentify, PathResume, PathRefuse, PathFails DEF OpenNext
  <2> QED BY <1>1, <2>1 DEF PathInv
<1>5. ASSUME NEW g \in Generations, \/ AsideNext(g) \/ Read(g) \/ StoreSequence(g) \/ Apply(g)
                                    \/ InvalidSession(g)
      PROVE  PathInv'
  <2>1. LinkInv' /\ ReadInv' /\ TakenInv'
    BY <1>5, PathAside, PathRead, PathStore, PathApply, PathInvalid
  <2> QED BY <1>1, <2>1 DEF PathInv
<1> QED BY <1>2, <1>3, <1>4, <1>5, Steps

LEMMA PathAlways == Spec => []PathInv
BY PathInit, PathStep, PTL DEF Spec

\* The state of the Session, its listeners and its cache is always of its type, whatever
\* events are applied to the cache (StateCache) and in whichever order.
THEOREM TypeCorrect == Spec => []TypeOK
<1>1. PathInv => TypeOK
  <2> SUFFICES ASSUME PathInv PROVE TypeOK
    OBVIOUS
  <2>1. part \in Parts \cup {"heartbeat"}
    BY GatewaySessionAssumption DEF PathInv, Types
  <2>2. \A g \in Generations : listener[g].pc \in InHand \cup {"off", "read", "ack", "ended"}
    BY DEF PathInv, Types, HandTypes
  <2>3. taken \subseteq DOMAIN session.log
    BY DEF PathInv, TakenInv
  <2>4. {unacked, late, crossed, gap, meddled} \subseteq BOOLEAN
    BY DEF PathInv, Types, BeatTypes
  <2> QED BY <2>1, <2>2, <2>3, <2>4 DEF TypeOK, PathInv, Types, BeatTypes, Truths, Links
<1> QED BY <1>1, PathAlways, PTL

\* Whatever a resumed connection is not sent again has been read by a listener of that session
\* (onEvent stores the sequence of what it read, authenticateGatewayGeneration names it), as
\* long as no listener left over has stored what belongs to an older session.
THEOREM NothingIsSkipped == Spec => []NothingSkipped
<1>1. PathInv => NothingSkipped
  BY DEF PathInv, LinkInv, LinkOf, ReadInv, NothingSkipped
<1> QED BY <1>1, PathAlways, PTL

-----------------------------------------------------------------------------
(* Heartbeats.                                                               *)

\* The newest generation, if no other has written a heartbeat time since its Hello: a heartbeat
\* is unacknowledged exactly while the server owes the answer, or the listener has it in hand,
\* or it is stamped and not written yet.
BeatOf(g) ==
    /\ listener[g].pc = "ack" => ~owed[g] /\ unacked
    /\ owed[g] => unacked
    /\ unacked => owed[g] \/ listener[g].pc = "ack" \/ beat[g] \in {"write", "ended"}
    /\ beat[g] = "stamp" => ~unacked
    /\ beat[g] = "write" => unacked /\ ~owed[g] /\ listener[g].pc # "ack"

BeatInv == generation # 0 /\ ~meddled => BeatOf(generation)


LEMMA BeatOpen ==
  ASSUME PathInv, Open
  PROVE  BeatInv'
<1> DEFINE h == generation'
<1>1. h \in Generations /\ h = generation + 1 /\ listener' = [listener EXCEPT ![h] = Hand("read")]
  BY TypesOpen DEF PathInv
<1>2. generation \in Nat
  BY GatewaySessionAssumption DEF PathInv, Types
<1>3. ~owed[h] /\ beat[h] = "off" /\ owed' = owed /\ ~unacked'
  BY <1>1, <1>2 DEF PathInv, Begun, Open
<1>4. listener'[h].pc = "read"
  BY <1>1, HandMade DEF PathInv, Types
<1>5. beat'[h] \in {"off", "wait"}
  BY <1>1, <1>3 DEF Open, PathInv, Types, BeatTypes
<1> QED BY <1>3, <1>4, <1>5 DEF BeatInv, BeatOf

\* Steps that are not those of a heartbeat.
LEMMA BeatKept ==
  ASSUME BeatInv, UNCHANGED <<beat, owed, unacked, meddled, generation>>,
         generation # 0 => (listener'[generation].pc = "ack" <=> listener[generation].pc = "ack")
  PROVE  BeatInv'
BY DEF BeatInv, BeatOf

LEMMA BeatAside ==
  ASSUME PathInv, BeatInv, NEW g \in Generations, AsideNext(g)
  PROVE  BeatInv'
<1>1. generation' = generation /\ BeatTypes
  BY AsideSteps DEF PathInv, Types, Aside, eventVars
<1>2. listener \in [Generations -> HandTypes]
  BY DEF PathInv, Types
<1>3. CASE Drop(g)
  BY <1>3, BeatKept DEF Drop, eventVars, beatVars
<1>4. CASE ReadClose(g) \/ ReadInvalidSession(g) \/ ListenEnds(g)
  <2>1. PICK pc \in {"closed", "invalid", "ended"} : Step(g, pc) /\ listener[g].pc = "read"
    BY <1>4 DEF ReadClose, ReadInvalidSession, ListenEnds
  <2>2. listener'[g].pc = pc /\ \A h \in Generations \ {g} : listener'[h] = listener[h]
    BY <2>1, PlaceIs DEF PathInv, InHand
  <2>3. generation # 0 => (listener'[generation].pc = "ack" <=> listener[generation].pc = "ack")
    <3>1. generation \in 0..MaxGenerations /\ MaxGenerations \in Nat
      BY GatewaySessionAssumption DEF PathInv, Types
    <3> QED BY <2>1, <2>2, <3>1 DEF Generations
  <2>4. UNCHANGED beatVars
    BY <1>4 DEF ReadClose, ReadInvalidSession, ListenEnds
  <2> QED BY <1>1, <2>3, <2>4, BeatKept DEF beatVars
<1>5. CASE ReadAck(g)
  <2>1. listener'[g].pc = "ack" /\ \A h \in Generations \ {g} : listener'[h] = listener[h]
    BY <1>5, PlaceIs DEF PathInv, InHand, ReadAck
  <2>2. CASE g = generation
    BY <1>1, <1>5, <2>1, <2>2 DEF ReadAck, BeatInv, BeatOf, BeatTypes
  <2>3. CASE g # generation
    <3>1. UNCHANGED <<beat, unacked, meddled>> /\ generation \in 0..MaxGenerations /\ MaxGenerations \in Nat
      BY <1>5, GatewaySessionAssumption DEF ReadAck, PathInv, Types
    <3>2. owed' = [owed EXCEPT ![g] = FALSE]
      BY <1>5 DEF ReadAck
    <3>3. generation # 0 => generation \in Generations \ {g}
      BY <2>3, <3>1 DEF Generations
    <3>4. generation # 0 => listener'[generation] = listener[generation]
      BY <2>1, <3>3
    <3>5. generation # 0 => owed'[generation] = owed[generation]
      BY <1>1, <3>2, <3>3 DEF BeatTypes
    <3> QED BY <1>1, <3>1, <3>4, <3>5 DEF BeatInv, BeatOf
  <2> QED BY <2>2, <2>3
<1>6. CASE StoreAck(g)
  <2>1. listener'[g].pc = "read" /\ \A h \in Generations \ {g} : listener'[h] = listener[h]
    BY <1>6, PlaceIs DEF PathInv, InHand, StoreAck
  <2>2. CASE g = generation
    BY <1>1, <1>6, <2>1, <2>2 DEF StoreAck, Meddles, BeatInv, BeatOf
  <2>3. CASE g # generation
    BY <1>1, <1>6, <2>3 DEF StoreAck, Meddles, BeatInv
  <2> QED BY <2>2, <2>3
<1>7. CASE BeatNext(g)
  <2>1. UNCHANGED listener
    BY <1>7 DEF BeatNext, Tick, BeatEnds, CheckAck, MissedAck, Stamp, Write, WriteFails
  <2>2. CASE g # generation
    <3>1. beat'[generation] = beat[generation] \/ generation = 0
      <4>1. PICK to : beat' = [beat EXCEPT ![g] = to]
        BY <1>7 DEF BeatNext, Tick, BeatEnds, CheckAck, MissedAck, Stamp, Write, WriteFails, Beat
      <4>2. generation \in 0..MaxGenerations /\ MaxGenerations \in Nat
        BY GatewaySessionAssumption DEF PathInv, Types
      <4> QED BY <1>1, <2>2, <4>1, <4>2 DEF BeatTypes, Generations
    <3>2. meddled' \/ UNCHANGED <<unacked, meddled>>
      BY <1>7, <2>2 DEF BeatNext, Tick, BeatEnds, CheckAck, MissedAck, Stamp, Write, WriteFails, Meddles
    <3>3. owed'[generation] = owed[generation] \/ generation = 0
      <4>1. owed' = owed \/ owed' = [owed EXCEPT ![g] = TRUE]
        BY <1>7 DEF BeatNext, Tick, BeatEnds, CheckAck, MissedAck, Stamp, Write, WriteFails
      <4>2. generation \in 0..MaxGenerations /\ MaxGenerations \in Nat
        BY GatewaySessionAssumption DEF PathInv, Types
      <4> QED BY <1>1, <2>2, <4>1, <4>2 DEF BeatTypes, Generations
    <3> QED BY <1>1, <2>1, <3>1, <3>2, <3>3 DEF BeatInv, BeatOf
  <2>3. CASE g = generation
    <3> SUFFICES ASSUME ~meddled', generation # 0 PROVE BeatOf(generation)'
      BY <1>1 DEF BeatInv
    <3>1. ~meddled
      BY <1>7 DEF BeatNext, Tick, BeatEnds, CheckAck, MissedAck, Stamp, Write, WriteFails, Meddles
    <3>2. BeatOf(g)
      BY <2>3, <3>1 DEF BeatInv
    <3>3. CASE Tick(g)
      BY <1>1, <2>1, <2>3, <3>2, <3>3 DEF Tick, Beat, BeatTypes, BeatOf
    <3>4. CASE BeatEnds(g) \/ MissedAck(g) \/ WriteFails(g)
      BY <1>1, <2>1, <2>3, <3>2, <3>4 DEF BeatEnds, MissedAck, WriteFails, Beat, BeatTypes, BeatOf
    <3>5. CASE CheckAck(g)
      BY <1>1, <2>1, <2>3, <3>2, <3>5 DEF CheckAck, Beat, BeatTypes, BeatOf
    <3>6. CASE Stamp(g)
      BY <1>1, <2>1, <2>3, <3>2, <3>6 DEF Stamp, Beat, BeatTypes, BeatOf
    <3>7. CASE Write(g)
      BY <1>1, <2>1, <2>3, <3>2, <3>7 DEF Write, Beat, BeatTypes, BeatOf
    <3> QED BY <1>7, <3>3, <3>4, <3>5, <3>6, <3>7 DEF BeatNext
  <2> QED BY <2>2, <2>3
<1> QED BY <1>3, <1>4, <1>5, <1>6, <1>7 DEF AsideNext

LEMMA BeatStep == PathInv /\ BeatInv /\ [Next]_vars => BeatInv'
<1> SUFFICES ASSUME PathInv, BeatInv, [Next]_vars PROVE BeatInv'
  OBVIOUS
<1>1. CASE UNCHANGED vars
  BY <1>1 DEF BeatInv, BeatOf, vars, eventVars, beatVars
<1>2. CASE ServerNext
  <2>1. PICK e, u : Tell(e, u)
    BY <1>2, ServerTells DEF PathInv
  <2> QED BY <2>1, BeatKept DEF Tell, beatVars
<1>3. CASE OpenNext
  <2>1. CASE Open
    BY <2>1, BeatOpen
  <2>2. CASE ~Open
    <3>1. UNCHANGED <<beatVars, generation, listener>>
      BY <1>3, <2>2 DEF OpenNext, Identify, Resume, Refuse, AuthenticateFails
    <3> QED BY <3>1, BeatKept DEF beatVars
  <2> QED BY <2>1, <2>2
<1>4. ASSUME NEW g \in Generations, AsideNext(g)
      PROVE  BeatInv'
  BY <1>4, BeatAside
<1>5. ASSUME NEW g \in Generations, Read(g) \/ StoreSequence(g) \/ Apply(g) \/ InvalidSession(g)
      PROVE  BeatInv'
  <2>1. UNCHANGED <<beatVars, generation>>
    BY <1>5 DEF Read, StoreSequence, Apply, InvalidSession
  <2>2. listener \in [Generations -> HandTypes]
    BY DEF PathInv, Types
  <2>3. listener[g].pc \in {"read", "store", "apply", "closed", "invalid"}
    BY <1>5 DEF Read, StoreSequence, Apply, InvalidSession
  <2>4. listener'[g].pc # "ack" /\ \A h \in Generations \ {g} : listener'[h] = listener[h]
    <3>1. CASE Read(g)
      BY <2>2, <3>1 DEF Read
    <3>2. CASE StoreSequence(g)
      BY <3>2, TypesStore DEF PathInv
    <3>3. CASE Apply(g)
      BY <2>2, <3>3, TypesApply DEF PathInv
    <3>4. CASE InvalidSession(g)
      BY <2>2, <3>4, TypesInvalid DEF PathInv
    <3> QED BY <1>5, <3>1, <3>2, <3>3, <3>4
  <2>5. generation # 0 => (listener'[generation].pc = "ack" <=> listener[generation].pc = "ack")
    <3>1. generation \in 0..MaxGenerations /\ MaxGenerations \in Nat
      BY GatewaySessionAssumption DEF PathInv, Types
    <3> QED BY <2>3, <2>4, <3>1 DEF Generations
  <2> QED BY <2>1, <2>5, BeatKept DEF beatVars
<1> QED BY <1>1, <1>2, <1>3, <1>4, <1>5, Steps

\* heartbeat ends its connection for a missing acknowledgement only if the server has not given
\* one, and sends the next only if it has: LastHeartbeatAck and LastHeartbeatSent, which all
\* generations share, say so unless one that is over has written them since Hello.
THEOREM JudgesItsOwn == Spec => JudgedByItsOwn
<1> DEFINE Judged == \A g \in Generations : g = generation /\ ~meddled =>
                        /\ MissedAck(g) => owed[g] \/ listener[g].pc = "ack"
                        /\ CheckAck(g) => ~owed[g]
<1>1. Init => BeatInv
  BY DEF Init, BeatInv
<1>2. BeatInv => Judged
  BY DEF BeatInv, BeatOf, MissedAck, CheckAck, Beat, Generations
<1>3. PathInv /\ BeatInv /\ [Next]_vars => BeatInv' /\ [Judged]_vars
  BY <1>2, BeatStep
<1> HIDE DEF Judged
<1>4. Spec => [][Judged]_vars
  BY <1>1, <1>3, PathAlways, PTL DEF Spec
<1> QED BY <1>4 DEF JudgedByItsOwn, Judged

-----------------------------------------------------------------------------
(* What each event leaves of the agreement of the cache with the guild.        *)

\* The ids the guild t has or had.
Ever(t) == {i \in Ids : t.items[i] # 0} \cup t.gone

\* What a cache keeps of the guild whatever it missed: channelMap has no channel that never was.
Old(c, t) == part = "channel" => \A i \in Ids : c.index[i] # 0 => i \in Ever(t)

\* READY has listed the guild, and GUILD_CREATE is yet to come.
Listed(c, q) == c.guildMap /\ (~q => c.guilds /\ c.index = NoItems)

UnseenBy(t, q) == q \/ (t.left /\ part \in InChannelMap)

\* The cache c agrees with the guild t: the parts of InSync, and what keeps them true.
SliceAgrees(c, t, q) ==
    part # "message" =>
        \A i \in Ids : c.slice[i] = t.items[i]
                       \/ (part = "thread" /\ UnseenBy(t, q) /\ c.slice[i] = 0)

IndexAgrees(c, t, q) ==
    part \in {"channel", "thread", "member", "role"} =>
        \A i \in Ids : IF t.items[i] # 0 THEN c.index[i] = t.items[i]
                       ELSE c.index[i] = 0 \/ (part \in InChannelMap /\ UnseenBy(t, q))

MessagesAgree(c, t) ==
    part = "message" =>
        /\ c.channel
        /\ \A n \in DOMAIN c.messages : t.items[c.messages[n][1]] = c.messages[n][2]
        /\ \A m, n \in DOMAIN c.messages : c.messages[m][1] = c.messages[n][1] => m = n

CountAgrees(c, t) == part = "member" => c.count = Present(t.items) + 1

Agrees(c, t, q) ==
    /\ c.guildMap
    /\ ~q => c.guilds
    /\ SliceAgrees(c, t, q) /\ IndexAgrees(c, t, q) /\ MessagesAgree(c, t) /\ CountAgrees(c, t)

Synced(c, t, q) ==
    /\ t.guild => Agrees(c, t, q)
    /\ ~t.guild => ~c.guilds /\ (~q => ~c.guildMap)

LEMMA EverGrows ==
  ASSUME NEW t \in Truths, NEW e, NEW u, part = "channel", Change(e, t, u)
  PROVE  Ever(t) \subseteq Ever(u)
<1> USE DEF Ever
<1>1. t.items \in Items /\ \A i \in Ids : t.items[i] \in Nat
  BY TruthIs, StateCacheAssumption DEF Items
<1>2. ASSUME NEW i \in Ids, NEW v \in 1..MaxVersion, u = [t EXCEPT !.items[i] = v]
      PROVE  Ever(t) \subseteq Ever(u)
  <2>1. u.items = [t.items EXCEPT ![i] = v] /\ u.gone = t.gone
    BY <1>2 DEF Truths
  <2>2. v # 0
    OBVIOUS
  <2> QED BY <1>1, <2>1, <2>2 DEF Items
<1>3. ASSUME NEW i \in Ids, u = [t EXCEPT !.items[i] = 0,
                                          !.gone = IF part \in MayReturn THEN t.gone ELSE t.gone \cup {i}]
      PROVE  Ever(t) \subseteq Ever(u)
  <2>1. u.items = [t.items EXCEPT ![i] = 0] /\ u.gone = t.gone \cup {i}
    BY <1>3 DEF Truths, MayReturn
  <2> QED BY <1>1, <2>1 DEF Items
<1>4. part \notin InOneEvent
  BY DEF InOneEvent
<1>5. CASE u = t
  BY <1>5
<1>6. CASE u = [t EXCEPT !.guild = FALSE, !.left = TRUE]
  BY <1>6 DEF Truths
<1>7. ASSUME NEW items \in Items,
             u = [guild |-> TRUE, items |-> items, left |-> TRUE,
                  gone |-> IF part \in MayReturn \cup {"thread"} THEN t.gone
                           ELSE t.gone \cup {i \in Ids : t.items[i] # 0 /\ items[i] = 0}]
      PROVE  Ever(t) \subseteq Ever(u)
  <2>1. u.items = items /\ u.gone = t.gone \cup {i \in Ids : t.items[i] # 0 /\ items[i] = 0}
    BY <1>7 DEF MayReturn
  <2> QED BY <2>1
<1> QED BY <1>2, <1>3, <1>4, <1>5, <1>6, <1>7 DEF Change

LEMMA NewIs ==
  /\ NewState.guilds = FALSE /\ NewState.guildMap = FALSE /\ NewState.index = NoItems
  /\ \A i \in Ids : NoItems[i] = 0
BY DEF NewState, NoItems

\* READY, after whatever was there.
LEMMA ReadyAgrees ==
  ASSUME NEW c \in CacheType, NEW t \in Truths, Old(c, t),
         NEW e, e = [type |-> "READY", listed |-> t.guild]
  PROVE  LET d == OnInterface(part, c, e)
             q == c # NewState
         IN  /\ Old(d, t)
             /\ t.guild => Listed(d, q)
             /\ ~t.guild => Synced(d, t, q)
<1> DEFINE d == OnInterface(part, c, e)
           q == c # NewState
<1>1. d = OnReady(part, c, e) /\ e.listed = t.guild
  BY DEF OnInterface
<1>2. CASE t.guild
  <2> DEFINE none  == 0
             index == IF part = "member" THEN NoItems ELSE c.index
  <2>1. d = [c EXCEPT !.guilds = TRUE, !.guildMap = TRUE, !.count = none, !.slice = NoItems,
                      !.index = index]
    BY <1>1, <1>2 DEF OnReady, CacheType
  <2> HIDE DEF d, none, index
  <2>2. d.guilds = TRUE /\ d.guildMap = TRUE /\ d.index = index
    BY <2>1 DEF CacheType
  <2>3. ~q => index = NoItems
    BY NewIs DEF index
  <2>4. Old(d, t)
    BY <2>2 DEF Old, index
  <2>5. Listed(d, q)
    BY <2>2, <2>3 DEF Listed
  <2> QED BY <1>2, <2>4, <2>5 DEF d
<1>3. CASE ~t.guild
  <2>1. d = [c EXCEPT !.guilds = FALSE]
    BY <1>1, <1>3 DEF OnReady
  <2> HIDE DEF d
  <2>2. d.guilds = FALSE /\ d.guildMap = c.guildMap /\ d.index = c.index
    BY <2>1 DEF CacheType
  <2>3. Old(d, t)
    BY <2>2 DEF Old
  <2>4. Synced(d, t, q)
    BY <1>3, <2>2, NewIs DEF Synced
  <2> QED BY <1>3, <2>3, <2>4 DEF d
<1> QED BY <1>2, <1>3

Told(t) == GuildCreate(IF part = "message" THEN NoItems ELSE t.items)

\* GUILD_CREATE: with what it found in channelMap it may leave something that is gone.
LEMMA CreateAgrees ==
  ASSUME NEW c \in CacheType, NEW t \in Truths, NEW q \in BOOLEAN, t.guild, part \in Parts,
         ~q /\ c.guildMap => c.guilds,
         part \in InChannelMap /\ ~UnseenBy(t, q) => c.index = NoItems,
         Old(c, t)
  PROVE  LET d == OnInterface(part, c, Told(t)) IN Old(d, t) /\ Agrees(d, t, q)
<1> DEFINE d     == OnInterface(part, c, Told(t))
           items == IF part = "message" THEN NoItems ELSE t.items
           n     == IF part = "member" THEN Present(items) + 1 ELSE 1
           e     == Told(t)
<1>1. items \in Items /\ t.items \in Items
  BY NoItemsIsItems, TruthIs
<1>2. n \in Nat /\ n # 0
  BY <1>1, PresentCounts
<1>3. e = [type |-> "GUILD_CREATE", given |-> TRUE, items |-> items, count |-> n]
  BY DEF GuildCreate, Told
<1> HIDE DEF n, e, items
<1>4. e.type = "GUILD_CREATE" /\ e.given = TRUE /\ e.items = items /\ e.count = n
  BY <1>3
<1>5. d = GuildAdd(part, c, e)
  BY <1>4 DEF OnInterface, e
<1> DEFINE guilds == IF c.guildMap THEN c.guilds ELSE TRUE
           index  == Reindexed(part, c, items)
<1>6. /\ d.guilds = guilds /\ d.guildMap = TRUE /\ d.count = n /\ d.slice = items
      /\ d.index = index /\ d.channel = TRUE /\ d.messages = <<>>
  BY <1>2, <1>4, <1>5 DEF GuildAdd, CacheType
<1> HIDE DEF d
<1>7. /\ ~q => d.guilds
      /\ d.guildMap
  BY <1>6
<1>8. part # "message" => items = t.items
  BY DEF items
<1>9. SliceAgrees(d, t, q)
  BY <1>6, <1>8 DEF SliceAgrees
<1>10. \A i \in Ids : index[i] = IF part \in InChannelMap /\ items[i] = 0 THEN c.index[i] ELSE items[i]
  BY DEF Reindexed
<1>11. IndexAgrees(d, t, q)
  BY <1>6, <1>8, <1>10, NewIs DEF IndexAgrees
<1>12. MessagesAgree(d, t)
  BY <1>6 DEF MessagesAgree
<1>13. CountAgrees(d, t)
  BY <1>6, <1>8 DEF CountAgrees, n
<1>14. Old(d, t)
  BY <1>6, <1>8, <1>10 DEF Old, Ever
<1> QED BY <1>7, <1>9, <1>11, <1>12, <1>13, <1>14 DEF Agrees, d

LEMMA BothIs ==
  ASSUME NEW c \in CacheType, NEW i \in Ids, NEW v
  PROVE  LET d == Both(c, i, v)
         IN  /\ d.slice = [c.slice EXCEPT ![i] = v] /\ d.index = [c.index EXCEPT ![i] = v]
             /\ d.guilds = c.guilds /\ d.guildMap = c.guildMap /\ d.count = c.count
             /\ d.channel = c.channel /\ d.messages = c.messages
BY DEF Both, CacheType

LEMMA CountIs ==
  ASSUME NEW c \in CacheType, NEW k \in Int, NEW d, d = [c EXCEPT !.count = k]
  PROVE  /\ d \in CacheType /\ d.slice = c.slice /\ d.index = c.index /\ d.count = k
         /\ d.guilds = c.guilds /\ d.guildMap = c.guildMap
BY DEF CacheType

\* One thing of the guild comes, changes or goes, in slice and index.
LEMMA BothAgrees ==
  ASSUME NEW c \in CacheType, NEW t \in Truths, NEW q \in BOOLEAN, NEW u,
         NEW i \in Ids, NEW v \in 0..MaxVersion,
         u.items = [t.items EXCEPT ![i] = v], u.left = t.left,
         SliceAgrees(c, t, q), IndexAgrees(c, t, q)
  PROVE  SliceAgrees(Both(c, i, v), u, q) /\ IndexAgrees(Both(c, i, v), u, q)
<1> DEFINE d == Both(c, i, v)
<1>1. d.slice = [c.slice EXCEPT ![i] = v] /\ d.index = [c.index EXCEPT ![i] = v]
  BY BothIs
<1> HIDE DEF d
<1>2. c.slice \in Items /\ c.index \in Items /\ t.items \in Items
  BY TruthIs DEF CacheType
<1>3. \A j \in Ids : /\ d.slice[j] = IF j = i THEN v ELSE c.slice[j]
                     /\ d.index[j] = IF j = i THEN v ELSE c.index[j]
                     /\ u.items[j] = IF j = i THEN v ELSE t.items[j]
  BY <1>1, <1>2 DEF Items
<1>4. SliceAgrees(d, u, q)
  BY <1>3 DEF SliceAgrees, UnseenBy
<1>5. IndexAgrees(d, u, q)
  BY <1>3 DEF IndexAgrees, UnseenBy
<1> QED BY <1>4, <1>5 DEF d

\* A write through the pointer of the index: the slice has it too, but for a thread that was
\* hidden while nothing was seen of it.
LEMMA InPlaceAgrees ==
  ASSUME NEW c \in CacheType, NEW t \in Truths, NEW q \in BOOLEAN, NEW u,
         NEW i \in Ids, NEW v \in 1..MaxVersion,
         u.items = [t.items EXCEPT ![i] = v], u.left = t.left,
         part \in {"channel", "thread", "role"},
         c.index[i] # 0, part = "channel" => t.items[i] # 0,
         SliceAgrees(c, t, q), IndexAgrees(c, t, q)
  PROVE  SliceAgrees(InPlace(c, i, v), u, q) /\ IndexAgrees(InPlace(c, i, v), u, q)
<1> DEFINE d == InPlace(c, i, v)
           w == IF c.slice[i] # 0 THEN v ELSE 0
<1>1. c.slice \in Items /\ c.index \in Items /\ t.items \in Items
  BY TruthIs DEF CacheType
<1>2. d.slice = [c.slice EXCEPT ![i] = w] /\ d.index = [c.index EXCEPT ![i] = v]
  BY <1>1 DEF InPlace, CacheType, Items
<1> HIDE DEF d, w
<1>3. \A j \in Ids : /\ d.slice[j] = IF j = i THEN w ELSE c.slice[j]
                     /\ d.index[j] = IF j = i THEN v ELSE c.index[j]
                     /\ u.items[j] = IF j = i THEN v ELSE t.items[j]
  BY <1>1, <1>2 DEF Items
<1>4. part \notin InChannelMap => part = "role"
  BY DEF InChannelMap
<1>5. w = v \/ (part = "thread" /\ UnseenBy(t, q) /\ w = 0)
  <2>1. CASE c.slice[i] # 0
    BY <2>1 DEF w
  <2>2. CASE c.slice[i] = 0
    <3>1. w = 0
      BY <2>2 DEF w
    <3>2. t.items[i] = 0 \/ (part = "thread" /\ UnseenBy(t, q))
      BY <2>2 DEF SliceAgrees
    <3>3. t.items[i] = 0 => part \in InChannelMap /\ UnseenBy(t, q)
      BY DEF IndexAgrees
    <3> QED BY <1>4, <3>1, <3>2, <3>3 DEF InChannelMap
  <2> QED BY <2>1, <2>2
<1>6. SliceAgrees(d, u, q)
  BY <1>3, <1>5 DEF SliceAgrees, UnseenBy
<1>7. IndexAgrees(d, u, q)
  BY <1>3 DEF IndexAgrees, UnseenBy
<1> QED BY <1>6, <1>7 DEF d

\* How many things of the part there are.
LEMMA PresentChanges ==
  ASSUME NEW items \in Items, NEW i \in Ids, NEW v \in 0..MaxVersion,
         NEW after, after = [items EXCEPT ![i] = v]
  PROVE  /\ items[i] = 0 /\ v # 0 => Present(after) = Present(items) + 1
         /\ items[i] # 0 /\ v # 0 => Present(after) = Present(items)
         /\ items[i] # 0 /\ v = 0 => Present(after) = Present(items) - 1
<1> DEFINE S == {j \in Ids : items[j] # 0}
           R == {j \in Ids : after[j] # 0}
<1>1. Present(items) = Cardinality(S) /\ Present(after) = Cardinality(R)
  BY DEF Present
<1>2. \A j \in Ids : after[j] = IF j = i THEN v ELSE items[j]
  BY DEF Items
<1>3. IsFiniteSet(S) /\ Cardinality(S) \in Nat
  BY StateCacheAssumption, FS_Subset, FS_CardinalityType
<1>4. CASE items[i] = 0 /\ v # 0
  <2>1. R = S \cup {i} /\ i \notin S
    BY <1>2, <1>4
  <2> HIDE DEF S, R
  <2>2. Cardinality(R) = Cardinality(S) + 1
    BY <1>3, <2>1, FS_AddElement
  <2> QED BY <1>1, <1>4, <2>2
<1>5. CASE items[i] # 0 /\ v # 0
  <2>1. R = S
    BY <1>2, <1>5
  <2> QED BY <1>1, <1>5, <2>1
<1>6. CASE items[i] # 0 /\ v = 0
  <2>1. R = S \ {i} /\ i \in S
    BY <1>2, <1>6
  <2> QED BY <1>1, <1>3, <1>6, <2>1, FS_RemoveElement
<1> QED BY <1>4, <1>5, <1>6

LEMMA MessageAddAgrees ==
  ASSUME NEW c \in CacheType, NEW t \in Truths, NEW u, NEW i \in Ids, NEW v \in 1..MaxVersion,
         u.items = [t.items EXCEPT ![i] = v], part = "message", MessagesAgree(c, t)
  PROVE  LET d == MessageAdd(c, i, v)
         IN  MessagesAgree(d, u) /\ d.guildMap = c.guildMap /\ d.guilds = c.guilds
<1> DEFINE d == MessageAdd(c, i, v)
           M == Ids \X (1..MaxVersion)
           s == c.messages
           x == <<i, v>>
<1>1. /\ c.channel /\ s \in Seq(M) /\ x \in M /\ Len(s) \in Nat /\ DOMAIN s = 1..Len(s)
      /\ x[1] = i /\ x[2] = v
  BY LenProperties DEF MessagesAgree, CacheType
<1>0. \A y \in M : y[1] \in Ids
  OBVIOUS
<1> HIDE DEF M
<1>2. /\ \A n \in 1..Len(s) : t.items[s[n][1]] = s[n][2]
      /\ \A n \in 1..Len(s) : s[n] \in M /\ s[n][1] \in Ids
      /\ \A m, n \in 1..Len(s) : s[m][1] = s[n][1] => m = n
  <2>1. \A n \in 1..Len(s) : s[n] \in M
    BY <1>1, ElementOfSeq
  <2> QED BY <1>0, <1>1, <2>1 DEF MessagesAgree
<1>3. \A j \in Ids : u.items[j] = IF j = i THEN v ELSE t.items[j]
  BY TruthIs DEF Items
<1>4. \A r \in Seq(M) : d = [c EXCEPT !.messages = r] =>
         d.messages = r /\ d.guildMap = c.guildMap /\ d.guilds = c.guilds /\ d.channel = c.channel
  BY DEF CacheType
<1>5. CASE Positions(c, i) # {}
  <2> DEFINE p == Position(c, i)
             r == [s EXCEPT ![p] = x]
  <2>1. p \in 1..Len(s) /\ s[p][1] = i
    BY <1>1, <1>5, PositionIs
  <2>2. d = [c EXCEPT !.messages = r]
    BY <1>1, <1>5 DEF MessageAdd, CacheType
  <2>3. /\ r \in Seq(M) /\ Len(r) = Len(s) /\ DOMAIN r = 1..Len(s)
        /\ \A n \in 1..Len(s) : r[n] = IF n = p THEN x ELSE s[n]
    BY <1>1, <2>1, ExceptSeq, LenProperties
  <2> HIDE DEF p, r, x, s, d
  <2>4. \A n \in 1..Len(s) : r[n][1] = s[n][1]
    BY <1>1, <2>1, <2>3
  <2>5. \A n \in 1..Len(s) : u.items[r[n][1]] = r[n][2]
    BY <1>1, <1>2, <1>3, <2>1, <2>3
  <2> QED BY <1>1, <1>2, <1>4, <2>2, <2>3, <2>4, <2>5 DEF MessagesAgree, d
<1>6. CASE Positions(c, i) = {}
  <2> DEFINE all  == Append(s, x)
             over == Len(all) - MaxMessageCount
             part1 == SubSeq(all, over + 1, Len(all))
  <2>1. \A n \in 1..Len(s) : s[n][1] # i
    BY <1>1, <1>6 DEF Positions
  <2>2. /\ all \in Seq(M) /\ Len(all) = Len(s) + 1 /\ DOMAIN all = 1..Len(s) + 1
        /\ \A n \in 1..Len(s) : all[n] = s[n]
        /\ all[Len(s) + 1] = x
    BY <1>1, AppendProperties, LenProperties
  <2>3. d = [c EXCEPT !.messages = IF over > 0 THEN part1 ELSE all]
    BY <1>1, <1>6 DEF MessageAdd
  <2> HIDE DEF all, x, s, d
  <2>4. /\ \A n \in 1..Len(s) + 1 : u.items[all[n][1]] = all[n][2]
        /\ \A m, n \in 1..Len(s) + 1 : all[m][1] = all[n][1] => m = n
    <3>1. \A n \in 1..Len(s) + 1 : n \in 1..Len(s) \/ n = Len(s) + 1
      BY <1>1
    <3>2. \A n \in 1..Len(s) : u.items[all[n][1]] = all[n][2]
      BY <1>2, <1>3, <2>1, <2>2
    <3>3. u.items[all[Len(s) + 1][1]] = all[Len(s) + 1][2] /\ all[Len(s) + 1][1] = i
      BY <1>1, <1>3, <2>2
    <3>4. \A n \in 1..Len(s) : all[n][1] # i /\ all[n] = s[n]
      BY <2>1, <2>2
    <3> HIDE DEF M
    <3>5. \A m, n \in 1..Len(s) + 1 : all[m][1] = all[n][1] => m = n
      BY <1>2, <3>1, <3>3, <3>4
    <3> QED BY <3>1, <3>2, <3>3, <3>5
  <2>5. CASE over > 0
    <3>1. over \in Nat /\ over + 1 \in Int /\ Len(all) \in Int /\ over <= Len(s)
      BY <1>1, <2>2, <2>5, StateCacheAssumption
    <3>2. \A n \in (over + 1)..Len(all) : all[n] \in M
      BY <2>2, <3>1, ElementOfSeq
    <3> HIDE DEF over
    <3>3. /\ part1 \in Seq(M) /\ Len(part1) = Len(s) + 1 - over
          /\ \A n \in 1..Len(s) + 1 - over : part1[n] = all[over + n]
      <4>1. part1 \in Seq(M)
            /\ Len(part1) = (IF over + 1 <= Len(all) THEN Len(all) - (over + 1) + 1 ELSE 0)
            /\ \A n \in 1..Len(all) - (over + 1) + 1 : part1[n] = all[over + 1 + n - 1]
        BY <3>1, <3>2, SubSeqProperties
      <4> HIDE DEF part1
      <4> QED BY <1>1, <2>2, <3>1, <4>1
    <3> HIDE DEF part1
    <3>4. DOMAIN part1 = 1..Len(s) + 1 - over
      BY <3>3, LenProperties
    <3>5. \A n \in DOMAIN part1 : over + n \in 1..Len(s) + 1 /\ part1[n] = all[over + n]
      BY <1>1, <3>1, <3>3, <3>4
    <3>6. /\ \A n \in DOMAIN part1 : u.items[part1[n][1]] = part1[n][2]
          /\ \A m, n \in DOMAIN part1 : part1[m][1] = part1[n][1] => m = n
      <4>1. \A n \in DOMAIN part1 : u.items[part1[n][1]] = part1[n][2]
        BY <2>4, <3>5
      <4>2. \A m, n \in DOMAIN part1 : part1[m][1] = part1[n][1] => over + m = over + n
        BY <2>4, <3>5
      <4> QED BY <3>1, <3>4, <4>1, <4>2
    <3>7. d = [c EXCEPT !.messages = part1]
      BY <2>3, <2>5
    <3> QED BY <1>1, <1>4, <3>3, <3>6, <3>7 DEF MessagesAgree, d
  <2>6. CASE ~(over > 0)
    <3>1. d = [c EXCEPT !.messages = all]
      BY <2>3, <2>6
    <3> QED BY <1>1, <1>4, <2>2, <2>4, <3>1 DEF MessagesAgree, d
  <2> QED BY <2>5, <2>6
<1> QED BY <1>5, <1>6

\* A sequence without its element p.
LEMMA Without ==
  ASSUME NEW M, NEW s \in Seq(M), NEW p \in 1..Len(s)
  PROVE  LET r == SubSeq(s, 1, p - 1) \o SubSeq(s, p + 1, Len(s))
         IN  /\ r \in Seq(M) /\ Len(r) = Len(s) - 1
             /\ \A n \in 1..Len(s) - 1 : r[n] = IF n < p THEN s[n] ELSE s[n + 1]
<1> DEFINE k == Len(s)
           a == SubSeq(s, 1, p - 1)
           b == SubSeq(s, p + 1, k)
           r == a \o b
<1>1. k \in Nat /\ p \in 1..k /\ \A n \in 1..k : s[n] \in M
  BY LenProperties, ElementOfSeq
<1> HIDE DEF k
<1>2. (\A n \in 1..p - 1 : s[n] \in M) /\ (\A n \in p + 1..k : s[n] \in M)
  BY <1>1
<1>3. a \in Seq(M) /\ Len(a) = (IF 1 <= p - 1 THEN p - 1 - 1 + 1 ELSE 0)
      /\ \A n \in 1..p - 1 - 1 + 1 : a[n] = s[1 + n - 1]
  BY <1>1, <1>2, SubSeqProperties
<1>4. b \in Seq(M) /\ Len(b) = (IF p + 1 <= k THEN k - (p + 1) + 1 ELSE 0)
      /\ \A n \in 1..k - (p + 1) + 1 : b[n] = s[p + 1 + n - 1]
  BY <1>1, <1>2, SubSeqProperties
<1> HIDE DEF a, b
<1> DEFINE la == Len(a)
           lb == Len(b)
<1>5. la = (IF 1 <= p - 1 THEN p - 1 - 1 + 1 ELSE 0) /\ lb = (IF p + 1 <= k THEN k - (p + 1) + 1 ELSE 0)
  BY <1>3, <1>4
<1>6. /\ r \in Seq(M) /\ Len(r) = la + lb
      /\ \A n \in 1..la + lb : r[n] = IF n <= la THEN a[n] ELSE b[n - la]
  BY <1>3, <1>4, ConcatProperties
<1> HIDE DEF r, la, lb
<1>7. la = p - 1 /\ lb = k - p
  BY <1>1, <1>5
<1>8. \A n \in 1..k - 1 : n < p => r[n] = s[n]
  <2> TAKE n \in 1..k - 1
  <2> HAVE n < p
  <2>1. r[n] = a[n] /\ n \in 1..p - 1 - 1 + 1 /\ 1 + n - 1 = n
    BY <1>1, <1>6, <1>7
  <2> QED BY <1>3, <2>1
<1>9. \A n \in 1..k - 1 : ~(n < p) => r[n] = s[n + 1]
  <2> TAKE n \in 1..k - 1
  <2> HAVE ~(n < p)
  <2> DEFINE m == n - (p - 1)
  <2>1. m \in 1..k - (p + 1) + 1 /\ p + 1 + m - 1 = n + 1
    BY <1>1
  <2>2. r[n] = b[m]
    BY <1>1, <1>6, <1>7
  <2> HIDE DEF m
  <2> QED BY <1>4, <2>1, <2>2
<1>10. Len(r) = k - 1
  BY <1>1, <1>6, <1>7
<1> QED BY <1>6, <1>8, <1>9, <1>10 DEF r, a, b, k

LEMMA MessageRemoveAgrees ==
  ASSUME NEW c \in CacheType, NEW t \in Truths, NEW u, NEW i \in Ids,
         u.items = [t.items EXCEPT ![i] = 0], part = "message", MessagesAgree(c, t)
  PROVE  LET d == MessageRemove(c, i)
         IN  MessagesAgree(d, u) /\ d.guildMap = c.guildMap /\ d.guilds = c.guilds
<1> DEFINE d == MessageRemove(c, i)
           M == Ids \X (1..MaxVersion)
           s == c.messages
<1>1. c.channel /\ s \in Seq(M) /\ Len(s) \in Nat /\ DOMAIN s = 1..Len(s)
  BY LenProperties DEF MessagesAgree, CacheType
<1>0. \A y \in M : y[1] \in Ids
  OBVIOUS
<1> HIDE DEF M
<1>2. /\ \A n \in 1..Len(s) : t.items[s[n][1]] = s[n][2]
      /\ \A n \in 1..Len(s) : s[n] \in M /\ s[n][1] \in Ids
      /\ \A m, n \in 1..Len(s) : s[m][1] = s[n][1] => m = n
  <2>1. \A n \in 1..Len(s) : s[n] \in M
    BY <1>1, ElementOfSeq
  <2> QED BY <1>0, <1>1, <2>1 DEF MessagesAgree
<1>3. \A j \in Ids : u.items[j] = IF j = i THEN 0 ELSE t.items[j]
  BY TruthIs DEF Items
<1>4. CASE Positions(c, i) = {}
  <2>1. \A n \in 1..Len(s) : s[n][1] # i
    BY <1>1, <1>4 DEF Positions
  <2>2. d = c
    BY <1>4 DEF MessageRemove
  <2>3. \A n \in 1..Len(s) : u.items[s[n][1]] = s[n][2]
    BY <1>2, <1>3, <2>1
  <2> QED BY <1>1, <1>2, <2>2, <2>3 DEF MessagesAgree
<1>5. CASE Positions(c, i) # {}
  <2> DEFINE p == Position(c, i)
             r == SubSeq(s, 1, p - 1) \o SubSeq(s, p + 1, Len(s))
  <2>1. p \in 1..Len(s) /\ s[p][1] = i
    BY <1>1, <1>5, PositionIs
  <2>2. d = [c EXCEPT !.messages = r]
    BY <1>1, <1>5 DEF MessageRemove, CacheType
  <2>6. /\ r \in Seq(M) /\ Len(r) = Len(s) - 1
        /\ \A n \in 1..Len(s) - 1 : r[n] = IF n < p THEN s[n] ELSE s[n + 1]
    <3> HIDE DEF p, s, d
    <3> USE DEF r
    <3>1. s \in Seq(M) /\ p \in 1..Len(s)
      BY <1>1, <2>1
    <3> QED BY ONLY <3>1, Without
  <2> HIDE DEF p, s, d
  <2> HIDE DEF r
  <2>7. DOMAIN r = 1..Len(s) - 1
    BY <2>6, LenProperties
  <2> DEFINE was(n) == IF n < p THEN n ELSE n + 1
  <2>8. \A n \in DOMAIN r : was(n) \in 1..Len(s) /\ was(n) # p /\ r[n] = s[was(n)]
    <3> TAKE n \in DOMAIN r
    <3>1. n \in 1..Len(s) - 1 /\ was(n) \in 1..Len(s) /\ was(n) # p
      BY <1>1, <2>1, <2>7
    <3>2. r[n] = IF n < p THEN s[n] ELSE s[n + 1]
      BY <2>6, <3>1
    <3> QED BY <3>1, <3>2
  <2>9. \A m, n \in DOMAIN r : was(m) = was(n) => m = n
    BY <1>1, <2>1, <2>7
  <2> HIDE DEF was
  <2>10. \A n \in DOMAIN r : u.items[r[n][1]] = r[n][2]
    BY <1>2, <1>3, <2>1, <2>8
  <2>11. \A m, n \in DOMAIN r : r[m][1] = r[n][1] => m = n
    BY <1>2, <2>8, <2>9
  <2>12. d.messages = r /\ d.guildMap = c.guildMap /\ d.guilds = c.guilds /\ d.channel = c.channel
    BY <2>2 DEF CacheType
  <2> QED BY <1>1, <2>10, <2>11, <2>12 DEF MessagesAgree, d
<1> QED BY <1>4, <1>5

LEMMA SetAgrees ==
  ASSUME NEW c \in CacheType, NEW t \in Truths, NEW q \in BOOLEAN, NEW e, NEW u,
         NEW i \in Ids, NEW v \in 1..MaxVersion,
         part \in Parts \ {"emoji"}, i \notin t.gone,
         e = [type |-> "SET", id |-> i, version |-> v, old |-> t.items[i]],
         u = [t EXCEPT !.items[i] = v],
         Old(c, t), Agrees(c, t, q)
  PROVE  LET d == OnInterface(part, c, e) IN Old(d, u) /\ Agrees(d, u, q)
<1> DEFINE d == OnInterface(part, c, e)
<1>1. /\ u.items = [t.items EXCEPT ![i] = v] /\ u.left = t.left /\ u.gone = t.gone
      /\ t.items \in Items /\ c.slice \in Items /\ c.index \in Items /\ v \in 0..MaxVersion /\ v # 0
  BY TruthIs DEF Truths, CacheType
<1>2. d = Set(part, c, e) /\ e.id = i /\ e.version = v /\ e.old = t.items[i]
  BY DEF OnInterface
<1>3. /\ c.guildMap /\ (~q => c.guilds) /\ SliceAgrees(c, t, q) /\ IndexAgrees(c, t, q)
      /\ MessagesAgree(c, t) /\ CountAgrees(c, t)
  BY DEF Agrees
<1> HIDE DEF d
<1>4. \A j \in Ids : u.items[j] = IF j = i THEN v ELSE t.items[j]
  BY <1>1 DEF Items
\* Only MemberAdd may count.
<1>5. ASSUME part \in InChannelMap \cup {"role"}, NEW x, x = Both(c, i, v) \/ x = InPlace(c, i, v),
             SliceAgrees(x, u, q), IndexAgrees(x, u, q)
      PROVE  Old(x, u) /\ Agrees(x, u, q)
  <2>1. x.guildMap = c.guildMap /\ x.guilds = c.guilds /\ x.index = [c.index EXCEPT ![i] = v]
    BY <1>5 DEF Both, InPlace, CacheType
  <2>2. \A j \in Ids : x.index[j] = IF j = i THEN v ELSE c.index[j]
    BY <1>1, <2>1 DEF Items
  <2>3. Old(x, u)
    BY <1>1, <1>4, <2>2 DEF Old, Ever
  <2>4. part # "message" /\ part # "member"
    BY <1>5 DEF InChannelMap
  <2> QED BY <1>3, <1>5, <2>1, <2>3, <2>4 DEF Agrees, MessagesAgree, CountAgrees
<1>6. CASE part \in InChannelMap
  <2>1. d = IF c.index[i] # 0 THEN InPlace(c, i, v) ELSE Both(c, i, v)
    BY <1>2, <1>3, <1>6 DEF Set, ChannelAdd, InChannelMap
  <2>2. CASE c.index[i] # 0
    <3>1. part = "channel" => t.items[i] # 0
      BY <2>2 DEF Old, Ever
    <3>2. SliceAgrees(d, u, q) /\ IndexAgrees(d, u, q)
      BY <1>1, <1>3, <1>6, <2>1, <2>2, <3>1, InPlaceAgrees DEF InChannelMap
    <3> QED BY <1>5, <1>6, <2>1, <2>2, <3>2 DEF d
  <2>3. CASE c.index[i] = 0
    <3>1. SliceAgrees(d, u, q) /\ IndexAgrees(d, u, q)
      BY <1>1, <1>3, <2>1, <2>3, BothAgrees
    <3> QED BY <1>5, <1>6, <2>1, <2>3, <3>1 DEF d
  <2> QED BY <2>2, <2>3
<1>7. CASE part = "role"
  <2>1. d = IF c.index[i] # 0 THEN InPlace(c, i, v) ELSE Both(c, i, v)
    BY <1>2, <1>3, <1>7 DEF Set, RoleAdd, InChannelMap
  <2>2. SliceAgrees(d, u, q) /\ IndexAgrees(d, u, q)
    <3>1. CASE c.index[i] # 0
      BY <1>1, <1>3, <1>7, <2>1, <3>1, InPlaceAgrees
    <3>2. CASE c.index[i] = 0
      BY <1>1, <1>3, <2>1, <3>2, BothAgrees
    <3> QED BY <3>1, <3>2
  <2> QED BY <1>5, <1>7, <2>1, <2>2 DEF d
<1>8. CASE part = "member"
  <2> DEFINE k == IF t.items[i] = 0 THEN Counted(c, 1) ELSE c
  <2>1. d = Both(k, i, v)
    <3>1. d = MemberAdd(k, i, v)
      BY <1>2, <1>8 DEF Set, InChannelMap
    <3>2. k.guildMap
      BY <1>3 DEF Counted, CacheType
    <3> QED BY <3>1, <3>2 DEF MemberAdd
  <2>2. /\ k \in CacheType /\ k.slice = c.slice /\ k.index = c.index /\ k.guildMap = c.guildMap
        /\ k.guilds = c.guilds /\ k.count = IF t.items[i] = 0 THEN c.count + 1 ELSE c.count
    <3> DEFINE n == IF t.items[i] = 0 THEN c.count + 1 ELSE c.count
    <3>1. n \in Int /\ k = [c EXCEPT !.count = n]
      BY <1>3 DEF Counted, CacheType
    <3> HIDE DEF k
    <3>2. n = IF t.items[i] = 0 THEN c.count + 1 ELSE c.count
      OBVIOUS
    <3> HIDE DEF n
    <3> QED BY <3>1, <3>2, CountIs
  <2> HIDE DEF k
  <2>3. SliceAgrees(k, t, q) /\ IndexAgrees(k, t, q)
    BY <1>3, <2>2 DEF SliceAgrees, IndexAgrees
  <2>4. SliceAgrees(d, u, q) /\ IndexAgrees(d, u, q)
    BY <1>1, <2>1, <2>2, <2>3, BothAgrees
  <2>5. d.count = k.count /\ d.guildMap = k.guildMap /\ d.guilds = k.guilds
    <3>1. k \in CacheType
      BY <2>2
    <3> QED BY <2>1, <3>1 DEF Both, CacheType
  <2>6. d.count = Present(u.items) + 1
    <3>1. c.count = Present(t.items) + 1 /\ Present(t.items) \in Nat
      BY <1>1, <1>3, <1>8, PresentCounts DEF CountAgrees
    <3>2. /\ t.items[i] = 0 => Present(u.items) = Present(t.items) + 1
          /\ t.items[i] # 0 => Present(u.items) = Present(t.items)
      BY <1>1, PresentChanges
    <3> QED BY <2>2, <2>5, <3>1, <3>2
  <2> QED BY <1>3, <1>8, <2>2, <2>4, <2>5, <2>6 DEF Agrees, MessagesAgree, CountAgrees, Old, d
<1>9. CASE part \in {"sound", "voice"}
  <2>1. d = [c EXCEPT !.slice = [c.slice EXCEPT ![i] = v]]
    BY <1>2, <1>3, <1>9 DEF Set, InChannelMap, SoundboardSoundAdd, VoiceStateUpdate, CacheType
  <2>2. d.slice = [c.slice EXCEPT ![i] = v] /\ d.guildMap = c.guildMap /\ d.guilds = c.guilds
    BY <2>1 DEF CacheType
  <2>3. \A j \in Ids : d.slice[j] = IF j = i THEN v ELSE c.slice[j]
    BY <1>1, <2>2 DEF Items
  <2>4. SliceAgrees(d, u, q)
    BY <1>1, <1>3, <1>4, <2>3 DEF SliceAgrees, UnseenBy
  <2> QED BY <1>3, <1>9, <2>2, <2>4 DEF Agrees, IndexAgrees, MessagesAgree, CountAgrees, Old, d
<1>10. CASE part = "message"
  <2>1. d = MessageAdd(c, i, v)
    BY <1>2, <1>10 DEF Set, InChannelMap
  <2>2. MessagesAgree(d, u) /\ d.guildMap = c.guildMap /\ d.guilds = c.guilds
    BY <1>1, <1>3, <1>10, <2>1, MessageAddAgrees
  <2> QED BY <1>3, <1>10, <2>2 DEF Agrees, SliceAgrees, IndexAgrees, CountAgrees, Old, d
<1> QED BY <1>6, <1>7, <1>8, <1>9, <1>10 DEF Parts, InChannelMap

LEMMA RemoveAgrees ==
  ASSUME NEW c \in CacheType, NEW t \in Truths, NEW q \in BOOLEAN, NEW e, NEW u, NEW i \in Ids,
         part \in Parts \ {"emoji"}, t.items[i] # 0,
         e = [type |-> "REMOVE", id |-> i],
         u.items = [t.items EXCEPT ![i] = 0], u.left = t.left, Ever(t) \subseteq Ever(u) \/ part # "channel",
         Old(c, t), Agrees(c, t, q)
  PROVE  LET d == OnInterface(part, c, e) IN Old(d, u) /\ Agrees(d, u, q)
<1> DEFINE d == OnInterface(part, c, e)
<1>1. /\ t.items \in Items /\ c.slice \in Items /\ c.index \in Items /\ 0 \in 0..MaxVersion
  BY TruthIs, StateCacheAssumption DEF CacheType
<1>2. d = Remove(part, c, e) /\ e.id = i
  BY DEF OnInterface
<1>3. /\ c.guildMap /\ (~q => c.guilds) /\ SliceAgrees(c, t, q) /\ IndexAgrees(c, t, q)
      /\ MessagesAgree(c, t) /\ CountAgrees(c, t)
  BY DEF Agrees
<1> HIDE DEF d
<1>4. \A j \in Ids : u.items[j] = IF j = i THEN 0 ELSE t.items[j]
  BY <1>1 DEF Items
<1>5. CASE part \in InChannelMap \cup {"role"}
  <2>1. c.index[i] # 0
    BY <1>3, <1>5 DEF IndexAgrees, InChannelMap
  <2>2. d = Both(c, i, 0)
    BY <1>2, <1>3, <1>5, <2>1 DEF Remove, ChannelRemove, RoleRemove, InChannelMap
  <2>3. SliceAgrees(d, u, q) /\ IndexAgrees(d, u, q)
    BY <1>1, <1>3, <2>2, BothAgrees
  <2>4. d.guildMap = c.guildMap /\ d.guilds = c.guilds /\ d.index = [c.index EXCEPT ![i] = 0]
    BY <2>2 DEF Both, CacheType
  <2>5. \A j \in Ids : d.index[j] # 0 => c.index[j] # 0
    BY <1>1, <2>4 DEF Items
  <2>6. Old(d, u)
    BY <2>5 DEF Old
  <2>7. part # "message" /\ part # "member"
    BY <1>5 DEF InChannelMap
  <2> QED BY <1>3, <2>3, <2>4, <2>6, <2>7 DEF Agrees, MessagesAgree, CountAgrees, d
<1>6. CASE part = "member"
  <2> DEFINE k == Counted(c, -1)
  <2>1. /\ k \in CacheType /\ k.slice = c.slice /\ k.index = c.index /\ k.guildMap = c.guildMap
        /\ k.guilds = c.guilds /\ k.count = c.count + (-1)
    <3> DEFINE n == c.count + (-1)
    <3>1. n \in Int /\ k = [c EXCEPT !.count = n]
      BY <1>3 DEF Counted, CacheType
    <3> HIDE DEF k
    <3>2. n = c.count + (-1)
      OBVIOUS
    <3> HIDE DEF n
    <3> QED BY <3>1, <3>2, CountIs
  <2> HIDE DEF k
  <2>2. c.index[i] # 0
    BY <1>3, <1>6 DEF IndexAgrees
  <2>3. d = Both(k, i, 0)
    <3>1. d = MemberRemove(k, i)
      BY <1>2, <1>6 DEF Remove, InChannelMap, k
    <3> QED BY <1>3, <2>1, <2>2, <3>1 DEF MemberRemove
  <2>4. SliceAgrees(k, t, q) /\ IndexAgrees(k, t, q)
    BY <1>3, <2>1 DEF SliceAgrees, IndexAgrees
  <2>5. SliceAgrees(d, u, q) /\ IndexAgrees(d, u, q)
    BY <1>1, <2>1, <2>3, <2>4, BothAgrees
  <2>6. d.count = k.count /\ d.guildMap = k.guildMap /\ d.guilds = k.guilds
    <3>1. k \in CacheType
      BY <2>1
    <3> QED BY <2>3, <3>1 DEF Both, CacheType
  <2>7. d.count = Present(u.items) + 1
    <3>1. c.count = Present(t.items) + 1 /\ Present(t.items) \in Nat
      BY <1>1, <1>3, <1>6, PresentCounts DEF CountAgrees
    <3>2. Present(u.items) = Present(t.items) - 1
      BY <1>1, PresentChanges
    <3> QED BY <2>1, <2>6, <3>1, <3>2
  <2> QED BY <1>3, <1>6, <2>1, <2>5, <2>6, <2>7 DEF Agrees, MessagesAgree, CountAgrees, Old, d
<1>7. CASE part \in {"sound", "voice"}
  <2>1. d = [c EXCEPT !.slice = [c.slice EXCEPT ![i] = 0]]
    BY <1>2, <1>3, <1>7 DEF Remove, InChannelMap, SoundboardSoundRemove, VoiceStateUpdate, CacheType
  <2>2. d.slice = [c.slice EXCEPT ![i] = 0] /\ d.guildMap = c.guildMap /\ d.guilds = c.guilds
    BY <2>1 DEF CacheType
  <2>3. \A j \in Ids : d.slice[j] = IF j = i THEN 0 ELSE c.slice[j]
    BY <1>1, <2>2 DEF Items
  <2>4. SliceAgrees(d, u, q)
    BY <1>3, <1>4, <2>3 DEF SliceAgrees, UnseenBy
  <2> QED BY <1>3, <1>7, <2>2, <2>4 DEF Agrees, IndexAgrees, MessagesAgree, CountAgrees, Old, d
<1>8. CASE part = "message"
  <2>1. d = MessageRemove(c, i)
    BY <1>2, <1>8 DEF Remove, InChannelMap
  <2>2. MessagesAgree(d, u) /\ d.guildMap = c.guildMap /\ d.guilds = c.guilds
    BY <1>3, <1>8, <2>1, MessageRemoveAgrees
  <2> QED BY <1>3, <1>8, <2>2 DEF Agrees, SliceAgrees, IndexAgrees, CountAgrees, Old, d
<1> QED BY <1>5, <1>6, <1>7, <1>8 DEF Parts, InChannelMap

LEMMA ReplaceAgrees ==
  ASSUME NEW c \in CacheType, NEW t \in Truths, NEW q \in BOOLEAN, NEW e, NEW u, NEW items \in Items,
         NEW s \in SUBSET Ids, \A i \in Ids \ s : items[i] = t.items[i],
         part \in InOneEvent, e = [type |-> "REPLACE", synced |-> s, items |-> items],
         u.items = items, u.left = t.left, Agrees(c, t, q)
  PROVE  LET d == OnInterface(part, c, e) IN Old(d, u) /\ Agrees(d, u, q)
<1> DEFINE d == OnInterface(part, c, e)
<1>1. d = Replace(part, c, e) /\ e.items = items /\ e.synced = s
  BY DEF OnInterface
<1>2. c.guildMap /\ (~q => c.guilds) /\ SliceAgrees(c, t, q) /\ IndexAgrees(c, t, q)
  BY DEF Agrees
<1>3. part \notin {"channel", "member", "role", "message"} /\ part \in {"emoji", "sound", "thread"}
  BY DEF InOneEvent
<1> HIDE DEF d
<1>4. CASE part \in {"emoji", "sound"}
  <2>1. d = [c EXCEPT !.slice = items]
    BY <1>1, <1>2, <1>4 DEF Replace, EmojisUpdate, SoundboardSoundsUpdate
  <2>2. d.slice = items /\ d.guildMap = c.guildMap /\ d.guilds = c.guilds
    BY <2>1 DEF CacheType
  <2> QED BY <1>2, <1>4, <2>2 DEF Agrees, SliceAgrees, IndexAgrees, MessagesAgree, CountAgrees, Old, d
<1>5. CASE part = "thread"
  <2> DEFINE slice == [i \in Ids |-> IF i \in s THEN items[i] ELSE c.slice[i]]
             index == [i \in Ids |-> IF i \in s /\ (c.slice[i] # 0 \/ items[i] # 0)
                                     THEN items[i] ELSE c.index[i]]
  <2>1. d = [c EXCEPT !.slice = slice, !.index = index]
    BY <1>1, <1>2, <1>5 DEF Replace, ThreadListSync, CacheType
  <2>2. \A i \in Ids : /\ slice[i] = IF i \in s THEN items[i] ELSE c.slice[i]
                       /\ index[i] = IF i \in s /\ (c.slice[i] # 0 \/ items[i] # 0)
                                     THEN items[i] ELSE c.index[i]
    OBVIOUS
  <2> HIDE DEF slice, index
  <2>3. d.slice = slice /\ d.index = index /\ d.guildMap = c.guildMap /\ d.guilds = c.guilds
    BY <2>1 DEF CacheType
  <2>4. \A i \in Ids : items[i] = 0 /\ index[i] # 0 => UnseenBy(t, q)
    BY <1>2, <1>5, <2>2 DEF SliceAgrees, IndexAgrees
  <2>5. \A i \in Ids : items[i] # 0 => index[i] = items[i]
    BY <1>2, <1>5, <2>2 DEF IndexAgrees
  <2>6. IndexAgrees(d, u, q)
    BY <1>5, <2>3, <2>4, <2>5 DEF IndexAgrees, UnseenBy, InChannelMap
  <2>7. \A i \in Ids : slice[i] = items[i] \/ (UnseenBy(t, q) /\ slice[i] = 0)
    BY <1>2, <1>5, <2>2 DEF SliceAgrees
  <2>8. SliceAgrees(d, u, q)
    BY <1>5, <2>3, <2>7 DEF SliceAgrees, UnseenBy
  <2> QED BY <1>2, <1>5, <2>3, <2>6, <2>8 DEF Agrees, MessagesAgree, CountAgrees, Old, d
<1> QED BY <1>3, <1>4, <1>5

\* GUILD_UPDATE tells nothing new.
LEMMA UpdateAgrees ==
  ASSUME NEW c \in CacheType, NEW t \in Truths, NEW q \in BOOLEAN, part \in Parts,
         Old(c, t), Agrees(c, t, q)
  PROVE  LET d == OnInterface(part, c, GuildUpdate(t.items)) IN Old(d, t) /\ Agrees(d, t, q)
<1> DEFINE e     == GuildUpdate(t.items)
           d     == OnInterface(part, c, e)
           given == part \in InGuildUpdate
           slice == IF given THEN t.items ELSE c.slice
           index == IF given THEN Reindexed(part, c, t.items) ELSE c.index
<1>1. /\ e.type = "GUILD_UPDATE" /\ (e.given <=> given) /\ e.items = t.items /\ e.count = 0
  BY DEF GuildUpdate
<1>2. c.guildMap /\ (~q => c.guilds) /\ SliceAgrees(c, t, q) /\ IndexAgrees(c, t, q)
      /\ MessagesAgree(c, t) /\ CountAgrees(c, t)
  BY DEF Agrees
<1>3. d = GuildAdd(part, c, e)
  BY <1>1 DEF OnInterface
<1> HIDE DEF e, given
<1>4. d = [c EXCEPT !.slice = slice, !.index = index]
  BY <1>1, <1>2, <1>3 DEF GuildAdd, CacheType
<1>5. \A i \in Ids : slice[i] = c.slice[i] \/ slice[i] = t.items[i]
  OBVIOUS
<1>6. \A i \in Ids : index[i] = c.index[i] \/ (part \notin InChannelMap /\ index[i] = t.items[i])
  BY DEF Reindexed, given, InGuildUpdate, InChannelMap
<1> HIDE DEF d, slice, index
<1>7. /\ d.slice = slice /\ d.index = index /\ d.guildMap = c.guildMap /\ d.guilds = c.guilds
      /\ d.count = c.count /\ d.channel = c.channel /\ d.messages = c.messages
  BY <1>4 DEF CacheType
<1>8. SliceAgrees(d, t, q)
  BY <1>2, <1>5, <1>7 DEF SliceAgrees
<1>9. IndexAgrees(d, t, q)
  BY <1>2, <1>6, <1>7 DEF IndexAgrees
<1>10. Old(d, t)
  BY <1>6, <1>7 DEF Old, InChannelMap
<1> QED BY <1>2, <1>7, <1>8, <1>9, <1>10 DEF Agrees, MessagesAgree, CountAgrees, d, e

LEMMA DeleteAgrees ==
  ASSUME NEW c \in CacheType, NEW t \in Truths, NEW q \in BOOLEAN, NEW u,
         ~u.guild, u.items = t.items, u.gone = t.gone, Old(c, t), Agrees(c, t, q)
  PROVE  LET d == OnInterface(part, c, [type |-> "GUILD_DELETE"]) IN Old(d, u) /\ Synced(d, u, q)
<1> DEFINE d     == OnInterface(part, c, [type |-> "GUILD_DELETE"])
           index == IF part \in InChannelMap THEN c.index ELSE NoItems
           none  == 0
<1>1. d = GuildRemove(part, c) /\ c.guildMap
  BY DEF OnInterface, Agrees
<1>2. d = [c EXCEPT !.guilds = FALSE, !.guildMap = FALSE, !.count = none, !.slice = NoItems,
                    !.index = index]
  BY <1>1 DEF GuildRemove, CacheType
<1>3. \A i \in Ids : index[i] # 0 => c.index[i] # 0
  BY NewIs
<1> HIDE DEF d, none, index
<1>4. d.guilds = FALSE /\ d.guildMap = FALSE /\ d.index = index
  BY <1>2 DEF CacheType
<1>5. Old(d, u)
  BY <1>3, <1>4 DEF Old, Ever
<1> QED BY <1>4, <1>5 DEF Synced, d

LEMMA RemovedIs ==
  ASSUME NEW t \in Truths, NEW u, NEW items, NEW gone, u = [t EXCEPT !.items = items, !.gone = gone]
  PROVE  u.guild = t.guild /\ u.left = t.left /\ u.items = items
BY DEF Truths

\* Whatever changes, the event leaves the cache in agreement with what the guild has become.
LEMMA ChangeAgrees ==
  ASSUME NEW c \in CacheType, NEW t \in Truths, NEW q \in BOOLEAN, NEW e, NEW u,
         ~Beating, part \in Parts, Change(e, t, u), Old(c, t), Synced(c, t, q)
  PROVE  LET d == OnInterface(part, c, e)
         IN  e.type # "READY" /\ Old(d, u) /\ Synced(d, u, q)
<1> DEFINE d == OnInterface(part, c, e)
<1>0. u \in Truths /\ t.items \in Items
  BY ChangeIs, TruthIs
<1>1. t.guild => Agrees(c, t, q)
  BY DEF Synced
<1>2. ASSUME u.guild, Old(d, u), Agrees(d, u, q)
      PROVE  Old(d, u) /\ Synced(d, u, q)
  BY <1>2 DEF Synced
<1>3. ASSUME NEW i \in Ids, NEW v \in 1..MaxVersion, t.guild, part # "emoji", i \notin t.gone,
             e = [type |-> "SET", id |-> i, version |-> v, old |-> t.items[i]],
             u = [t EXCEPT !.items[i] = v]
      PROVE  e.type # "READY" /\ Old(d, u) /\ Synced(d, u, q)
  <2>1. u.guild /\ e.type # "READY"
    BY <1>3 DEF Truths
  <2>2. Old(d, u) /\ Agrees(d, u, q)
    BY <1>1, <1>3, SetAgrees
  <2> QED BY <1>2, <2>1, <2>2
<1>4. ASSUME NEW i \in Ids, t.guild, part # "emoji", t.items[i] # 0, e = [type |-> "REMOVE", id |-> i],
             u = [t EXCEPT !.items[i] = 0,
                           !.gone = IF part \in MayReturn THEN t.gone ELSE t.gone \cup {i}]
      PROVE  e.type # "READY" /\ Old(d, u) /\ Synced(d, u, q)
  <2> DEFINE gone == IF part \in MayReturn THEN t.gone ELSE t.gone \cup {i}
  <2>1. u = [t EXCEPT !.items = [t.items EXCEPT ![i] = 0], !.gone = gone]
    BY <1>4 DEF Truths
  <2> HIDE DEF gone
  <2>2. u.guild = t.guild /\ u.left = t.left /\ u.items = [t.items EXCEPT ![i] = 0] /\ e.type # "READY"
    <3> DEFINE items == [t.items EXCEPT ![i] = 0]
    <3>1. u = [t EXCEPT !.items = items, !.gone = gone]
      BY <2>1
    <3>2. e.type # "READY"
      BY <1>4
    <3> HIDE DEF items
    <3>3. u.guild = t.guild /\ u.left = t.left /\ u.items = items
      <4>1. t \in Truths
        OBVIOUS
      <4> QED BY ONLY <3>1, <4>1, RemovedIs, Zenon
    <3> QED BY <3>2, <3>3 DEF items
  <2>3. Ever(t) \subseteq Ever(u) \/ part # "channel"
    BY EverGrows
  <2>4. Old(d, u) /\ Agrees(d, u, q)
    <3>1. Agrees(c, t, q)
      BY <1>1, <1>4
    <3>2. /\ part \in Parts \ {"emoji"} /\ t.items[i] # 0 /\ e = [type |-> "REMOVE", id |-> i]
          /\ u.items = [t.items EXCEPT ![i] = 0] /\ u.left = t.left
          /\ c \in CacheType /\ t \in Truths /\ q \in BOOLEAN /\ i \in Ids /\ Old(c, t)
      BY <1>4, <2>2
    <3> QED BY ONLY <2>3, <3>1, <3>2, RemoveAgrees
  <2> QED BY <1>2, <1>4, <2>2, <2>4
<1>5. ASSUME NEW items \in Items, NEW s \in SUBSET Ids, t.guild, part \in InOneEvent,
             \A i \in Ids \ s : items[i] = t.items[i],
             e = [type |-> "REPLACE", synced |-> s, items |-> items], u = [t EXCEPT !.items = items]
      PROVE  e.type # "READY" /\ Old(d, u) /\ Synced(d, u, q)
  <2>1. u.guild = t.guild /\ u.left = t.left /\ u.items = items /\ e.type # "READY"
    BY <1>5 DEF Truths
  <2>2. Old(d, u) /\ Agrees(d, u, q)
    BY <1>1, <1>5, <2>1, ReplaceAgrees
  <2> QED BY <1>2, <1>5, <2>1, <2>2
<1>6. CASE t.guild /\ e = GuildUpdate(t.items) /\ u = t
  <2>1. e.type # "READY"
    BY <1>0, <1>6, GuildEvents
  <2> QED BY <1>1, <1>2, <1>6, <2>1, UpdateAgrees
<1>7. CASE t.guild /\ e = [type |-> "GUILD_DELETE"] /\ u = [t EXCEPT !.guild = FALSE, !.left = TRUE]
  <2>1. ~u.guild /\ u.items = t.items /\ u.gone = t.gone /\ e.type # "READY"
    BY <1>7 DEF Truths
  <2> QED BY <1>1, <1>7, <2>1, DeleteAgrees
<1>8. ASSUME NEW items \in Items, ~t.guild, e = GuildCreate(IF part = "message" THEN NoItems ELSE items),
             u = [guild |-> TRUE, items |-> items, left |-> TRUE,
                  gone |-> IF part \in MayReturn \cup {"thread"} THEN t.gone
                           ELSE t.gone \cup {i \in Ids : t.items[i] # 0 /\ items[i] = 0}]
      PROVE  e.type # "READY" /\ Old(d, u) /\ Synced(d, u, q)
  <2>1. u.guild = TRUE /\ u.items = items /\ u.left = TRUE
    BY <1>8
  <2>2. e = Told(u)
    BY <1>8, <2>1 DEF Told
  <2>3. Old(c, u)
    BY EverGrows DEF Old
  <2>4. ~q => ~c.guildMap
    BY <1>8 DEF Synced
  <2>5. e.type # "READY"
    <3>1. (IF part = "message" THEN NoItems ELSE items) \in Items
      BY NoItemsIsItems
    <3> QED BY <1>8, <3>1, GuildEvents
  <2>6. Old(d, u) /\ Agrees(d, u, q)
    BY <1>0, <2>1, <2>2, <2>3, <2>4, CreateAgrees DEF UnseenBy
  <2> QED BY <1>2, <2>1, <2>5, <2>6
<1> QED BY <1>3, <1>4, <1>5, <1>6, <1>7, <1>8 DEF Change

-----------------------------------------------------------------------------
(* The cache follows the session.                                             *)

\* What the guild was after each event of the session, and before READY.
History(h) ==
    LET log  == session.log
        last == Len(log)
    IN  /\ last >= 1 /\ h \in [0..last -> Truths]
        /\ h[0] = h[1] /\ log[1] = [type |-> "READY", listed |-> h[1].guild]
        /\ h[1].guild /\ ~Beating => last >= 2 /\ h[2] = h[1] /\ log[2] = Told(h[1])
        /\ \A n \in 2..last : n > 2 \/ ~h[1].guild => ~Beating /\ Change(log[n], h[n - 1], h[n])
        /\ h[last] = truth
        /\ part = "channel" => \A n \in 0..last : Ever(h[n]) \subseteq Ever(truth)

\* What the cache is when the first p events have been applied.
At(h, p) ==
    /\ p \in 0..Len(session.log)
    /\ Old(cache, h[p])
    /\ p = 1 /\ h[1].guild => Listed(cache, gap)
    /\ p > 1 \/ (p = 1 /\ ~h[1].guild) => Synced(cache, h[p], gap)

\* No listener that was left over has an event in hand, nor has the newest.
InTime == \A g \in Generations : g # generation => listener[g].pc \notin Hands
Idle   == \A g \in Generations : g = generation => listener[g].pc \notin Hands

\* The cache is at the event before the one the newest listener has in hand, or else before the
\* one it will read, or that a connection which resumes will be sent first.  The sequence is
\* stored before the event is applied; or it was cleared in between, with the session id.
Stands(h) ==
    /\ \A g \in Generations : g = generation =>
          /\ listener[g].pc \in Hands =>
                /\ At(h, listener[g].number - 1)
                /\ link[g].state = "up" => link[g].next = listener[g].number + 1
                /\ listener[g].pc = "apply" =>
                      sequence = listener[g].number \/ (sequence = 0 /\ sessionID = None)
          /\ listener[g].pc \notin Hands /\ link[g].state = "up" => At(h, link[g].next - 1)
    /\ Idle /\ sessionID = session.number => At(h, sequence)
    /\ loaded # None /\ sessionID = session.number => loaded = sequence + 1

SyncInv ==
    ~late /\ InTime =>
        /\ Old(cache, truth)
        /\ ~Idle => session.live
        /\ session.live => \E h : History(h) /\ Stands(h)

\* Without events nothing is resumed; and only the messages are in messages.
SilentInv ==
    /\ Beating => /\ sessionID = None
                  /\ \A g \in Generations : link[g].state = "up" => link[g].next = 1
    /\ part # "message" => cache.messages = <<>>

LEMMA SyncInit == Init => SyncInv /\ SilentInv
<1> SUFFICES ASSUME Init PROVE SyncInv /\ SilentInv
  OBVIOUS
<1>1. \A g \in Generations : listener[g].pc \notin Hands /\ link[g].state = "off"
  BY DEF Init, Hand, Hands
<1>2. cache = NewState /\ sessionID = None /\ ~session.live
  BY DEF Init
<1>3. Old(cache, truth)
  BY <1>2, NewIs DEF Old
<1>4. SilentInv
  BY <1>1, <1>2 DEF SilentInv, NewState
<1> QED BY <1>1, <1>2, <1>3, <1>4 DEF SyncInv, Idle

\* What is applied next takes the cache from one event to the next.
LEMMA ApplyAgrees ==
  ASSUME PathInv, ~Beating, part \in Parts, NEW h, History(h), NEW n \in 1..Len(session.log), At(h, n - 1)
  PROVE  LET e == session.log[n]
             d == OnInterface(part, cache, e)
             q == IF n = 1 THEN cache # NewState ELSE gap
         IN  /\ e.type = "READY" <=> n = 1
             /\ Old(d, h[n])
             /\ n = 1 /\ h[1].guild => Listed(d, q)
             /\ n > 1 \/ (n = 1 /\ ~h[1].guild) => Synced(d, h[n], q)
<1> DEFINE e == session.log[n]
           d == OnInterface(part, cache, e)
<1>1. cache \in CacheType /\ gap \in BOOLEAN /\ Len(session.log) \in Nat
  BY LenProperties DEF PathInv, Types
<1>2. h[n] \in Truths /\ h[n - 1] \in Truths /\ h[0] \in Truths /\ h[1] \in Truths /\ n \in Nat
  <2>1. n \in 0..Len(session.log) /\ n - 1 \in 0..Len(session.log) /\ 0 \in 0..Len(session.log)
        /\ 1 \in 0..Len(session.log)
    BY <1>1
  <2>2. h \in [0..Len(session.log) -> Truths]
    BY DEF History
  <2>3. n \in Nat
    BY <1>1
  <2> QED BY <2>1, <2>2, <2>3
<1>3. Old(cache, h[n - 1])
  BY DEF At
<1> HIDE DEF d
<1>4. CASE n = 1
  <2>1. e = [type |-> "READY", listed |-> h[1].guild] /\ h[0] = h[1]
    BY <1>4 DEF History
  <2>2. Old(cache, h[1])
    BY <1>3, <1>4, <2>1
  <2> HIDE DEF e
  <2>3. /\ Old(d, h[1]) /\ (h[1].guild => Listed(d, cache # NewState))
        /\ (~h[1].guild => Synced(d, h[1], cache # NewState))
    BY <1>1, <1>2, <2>1, <2>2, ReadyAgrees DEF d
  <2>4. e.type = "READY"
    BY <2>1
  <2> QED BY <1>4, <2>3, <2>4 DEF d, e
<1>5. CASE n = 2 /\ h[1].guild
  <2>1. e = Told(h[1]) /\ h[2] = h[1] /\ Listed(cache, gap)
    BY <1>5 DEF History, At
  <2>2. Old(cache, h[1])
    BY <1>3, <1>5
  <2> HIDE DEF e
  <2>3. Old(d, h[1]) /\ Agrees(d, h[1], gap)
    BY <1>1, <1>2, <1>5, <2>1, <2>2, CreateAgrees DEF d, Listed, UnseenBy
  <2>4. e.type # "READY"
    <3>1. (IF part = "message" THEN NoItems ELSE h[1].items) \in Items
      BY <1>2, NoItemsIsItems, TruthIs
    <3> QED BY <2>1, <3>1, GuildEvents DEF Told
  <2>5. Synced(d, h[2], gap)
    BY <1>5, <2>1, <2>3 DEF Synced
  <2> QED BY <1>5, <2>1, <2>3, <2>4, <2>5 DEF d, e
<1>6. CASE n > 1 /\ (n > 2 \/ ~h[1].guild)
  <2>1. Change(e, h[n - 1], h[n]) /\ Synced(cache, h[n - 1], gap)
    <3>1. n \in 2..Len(session.log) /\ (n - 1 > 1 \/ (n - 1 = 1 /\ ~h[1].guild))
      BY <1>1, <1>2, <1>6
    <3> QED BY <1>6, <3>1 DEF History, At
  <2> HIDE DEF e
  <2>2. e.type # "READY" /\ Old(d, h[n]) /\ Synced(d, h[n], gap)
    BY <1>1, <1>2, <1>3, <2>1, ChangeAgrees DEF d
  <2> QED BY <1>6, <2>2 DEF d, e
<1> QED BY <1>2, <1>4, <1>5, <1>6

\* Only events of messages put something in messages.
LEMMA NoMessages ==
  ASSUME NEW c \in CacheType, NEW e \in Events, Fits(e), part # "message", c.messages = <<>>
  PROVE  OnInterface(part, c, e).messages = <<>>
<1> DEFINE d == OnInterface(part, c, e)
<1>1. \A i, v : Both(c, i, v).messages = <<>> /\ InPlace(c, i, v).messages = <<>>
  BY DEF Both, InPlace, CacheType
<1>2. \A k : Counted(c, k).messages = <<>> /\ [c EXCEPT !.slice = k].messages = <<>>
  BY DEF Counted, CacheType
<1>3. \A k, i, v : Both(Counted(c, k), i, v).messages = <<>>
  BY DEF Counted, Both, CacheType
<1>4. CASE e.type = "READY"
  BY <1>4 DEF OnInterface, OnReady, CacheType
<1>5. CASE e.type \in {"GUILD_CREATE", "GUILD_UPDATE"}
  BY <1>5 DEF OnInterface, GuildAdd, CacheType
<1>6. CASE e.type = "GUILD_DELETE"
  BY <1>6 DEF OnInterface, GuildRemove, CacheType
<1>7. CASE e.type = "SET"
  <2>1. part \in Parts \ {"emoji"} /\ d = Set(part, c, e)
    BY <1>7 DEF Fits, OnInterface
  <2> HIDE DEF d
  <2>2. CASE part \in InChannelMap
    BY <1>1, <2>1, <2>2 DEF Set, ChannelAdd, InChannelMap, d
  <2>3. CASE part = "member"
    BY <1>1, <1>2, <1>3, <2>1, <2>3 DEF Set, MemberAdd, InChannelMap, d
  <2>4. CASE part = "role"
    BY <1>1, <2>1, <2>4 DEF Set, RoleAdd, InChannelMap, d
  <2>5. CASE part \in {"sound", "voice"}
    <3>1. d \in {c, [c EXCEPT !.slice = [c.slice EXCEPT ![e.id] = e.version]]}
      BY <2>1, <2>5 DEF Set, InChannelMap, SoundboardSoundAdd, VoiceStateUpdate, CacheType
    <3> QED BY <1>2, <3>1 DEF d
  <2> QED BY <2>1, <2>2, <2>3, <2>4, <2>5 DEF Parts, InChannelMap
<1>8. CASE e.type = "REMOVE"
  <2>1. part \in Parts \ {"emoji"} /\ d = Remove(part, c, e)
    BY <1>8 DEF Fits, OnInterface
  <2> HIDE DEF d
  <2>2. CASE part \in InChannelMap
    BY <1>1, <2>1, <2>2 DEF Remove, ChannelRemove, InChannelMap, d
  <2>3. CASE part = "member"
    BY <1>2, <1>3, <2>1, <2>3 DEF Remove, MemberRemove, InChannelMap, d
  <2>4. CASE part = "role"
    BY <1>1, <2>1, <2>4 DEF Remove, RoleRemove, InChannelMap, d
  <2>5. CASE part \in {"sound", "voice"}
    <3>1. d \in {c, [c EXCEPT !.slice = [c.slice EXCEPT ![e.id] = 0]]}
      BY <2>1, <2>5 DEF Remove, InChannelMap, SoundboardSoundRemove, VoiceStateUpdate, CacheType
    <3> QED BY <1>2, <3>1 DEF d
  <2> QED BY <2>1, <2>2, <2>3, <2>4, <2>5 DEF Parts, InChannelMap
<1>9. CASE e.type = "REPLACE"
  <2>1. part \in InOneEvent /\ d = Replace(part, c, e)
    BY <1>9 DEF Fits, OnInterface
  <2> HIDE DEF d
  <2>2. CASE part = "thread"
    BY <2>1, <2>2 DEF Replace, ThreadListSync, CacheType, d
  <2>3. CASE part \in {"emoji", "sound"}
    BY <1>2, <2>1, <2>3 DEF Replace, EmojisUpdate, SoundboardSoundsUpdate, d
  <2> QED BY <2>1, <2>2, <2>3 DEF InOneEvent
<1> QED BY <1>4, <1>5, <1>6, <1>7, <1>8, <1>9, EventIs

LEMMA SilentStep == PathInv /\ SilentInv /\ [Next]_vars => SilentInv'
<1> SUFFICES ASSUME PathInv, SilentInv, [Next]_vars PROVE SilentInv'
  OBVIOUS
<1>1. part' = part /\ (Beating' <=> Beating)
  <2>1. part' = part
    BY DEF Next, vars, eventVars, serverVars, ServerNext, SetItem, RemoveItem, ReplaceItems,
           UpdateGuild, LeaveGuild, JoinGuild, Tell, OpenNext, Open, Identify, Resume, Refuse,
           AuthenticateFails, ListenNext, Drop, Read, ReadClose, ReadInvalidSession, ListenEnds,
           StoreSequence, Apply, InvalidSession, ReadAck, StoreAck, BeatNext, Tick, BeatEnds,
           CheckAck, MissedAck, Stamp, Write, WriteFails
  <2> QED BY <2>1 DEF Beating
<1>2. ASSUME UNCHANGED <<sessionID, link, cache>> PROVE SilentInv'
  BY <1>1, <1>2 DEF SilentInv
<1>3. CASE UNCHANGED vars
  BY <1>2, <1>3 DEF vars, eventVars, clientVars
<1>4. CASE ServerNext
  <2>1. PICK e, u : Tell(e, u)
    BY <1>4, ServerTells DEF PathInv
  <2> QED BY <1>2, <2>1 DEF Tell, clientVars
<1>5. CASE OpenNext
  <2>1. UNCHANGED <<sessionID, cache>>
    BY <1>5 DEF OpenNext, Open, Identify, Resume, Refuse, AuthenticateFails, clientVars
  <2>2. Resume => sessionID # None
    BY DEF Resume, PathInv, LinkInv
  <2>3. CASE Open
    <3>1. link' = [link EXCEPT ![generation'] = [link[generation'] EXCEPT !.state = "hello"]]
          /\ generation' \in Generations
      BY <2>3, TypesOpen DEF PathInv
    <3>2. \A g \in Generations : link'[g].state = "up" => link'[g] = link[g]
      BY <3>1 DEF PathInv, Types, Links
    <3> QED BY <1>1, <2>1, <3>2 DEF SilentInv
  <2>4. CASE Identify
    <3>1. link' = [link EXCEPT ![generation] =
                      [state |-> "up", session |-> session.number + 1, next |-> 1]]
      BY <2>4, TypesIdentify DEF PathInv
    <3>2. \A g \in Generations : link'[g] = link[g] \/ link'[g].next = 1
      BY <3>1 DEF PathInv, Types
    <3> QED BY <1>1, <2>1, <3>2 DEF SilentInv
  <2>5. CASE Resume
    BY <1>1, <2>1, <2>2, <2>5 DEF SilentInv
  <2>6. CASE Refuse
    BY <1>1, <2>1, <2>6 DEF SilentInv, Refuse
  <2>7. CASE AuthenticateFails
    BY <1>2, <2>1, <2>7 DEF AuthenticateFails
  <2> QED BY <1>5, <2>3, <2>4, <2>5, <2>6, <2>7 DEF OpenNext
<1>6. ASSUME NEW g \in Generations, AsideNext(g) PROVE SilentInv'
  <2>1. Aside /\ UNCHANGED <<sessionID, cache>>
    BY <1>6, AsideSteps DEF PathInv, Aside, eventVars, clientVars
  <2>2. \A k \in Generations : link'[k].state = "up" => link'[k] = link[k]
    <3>1. \A k \in Generations : link[k] \in Links(session.number) /\ session.number \in Nat
      BY DEF PathInv, Types
    <3> QED BY <2>1, <3>1, AsideLink, ClosedIs DEF PathInv
  <2> QED BY <1>1, <2>1, <2>2 DEF SilentInv
<1>7. ASSUME NEW g \in Generations, Read(g) PROVE SilentInv'
  BY <1>1, <1>7 DEF SilentInv, Read, clientVars
<1>8. ASSUME NEW g \in Generations, StoreSequence(g) PROVE SilentInv'
  BY <1>2, <1>8 DEF StoreSequence
<1>9. ASSUME NEW g \in Generations, Apply(g) PROVE SilentInv'
  <2>1. listener[g].event \in Events /\ Fits(listener[g].event) /\ cache \in CacheType /\ ~Beating
    BY <1>9, TypesApply DEF PathInv, Types, Apply, Hands
  <2>2. cache' = OnInterface(part, cache, listener[g].event)
    BY <1>9 DEF Apply
  <2>3. part # "message" => cache'.messages = <<>>
    BY <2>1, <2>2, NoMessages DEF SilentInv
  <2> QED BY <1>1, <2>1, <2>3 DEF SilentInv
<1>10. ASSUME NEW g \in Generations, InvalidSession(g) PROVE SilentInv'
  <2>1. link' = [link EXCEPT ![g] = Closed(link[g])] /\ sessionID' = None /\ cache' = cache
    BY <1>10, TypesInvalid DEF PathInv, InvalidSession
  <2>2. \A k \in Generations : link'[k] = link[k] \/ link'[k].state = "down"
    <3>1. Closed(link[g]).state = "down"
      BY ClosedIs DEF PathInv, Types
    <3> QED BY <2>1, <3>1 DEF PathInv, Types
  <2> QED BY <1>1, <2>1, <2>2 DEF SilentInv
<1> QED BY <1>3, <1>4, <1>5, <1>6, <1>7, <1>8, <1>9, <1>10, Steps

\* Steps that leave a part of this as it is.
LEMMA EventsKept ==
  ASSUME part' = part, NEW e, NEW t, NEW u, NEW c, NEW q
  PROVE  /\ Change(e, t, u)' <=> Change(e, t, u)
         /\ Told(t)' = Told(t)
         /\ Old(c, t)' <=> Old(c, t)
         /\ Synced(c, t, q)' <=> Synced(c, t, q)
<1>1. \A items : GuildCreate(items)' = GuildCreate(items) /\ GuildUpdate(items)' = GuildUpdate(items)
  BY DEF GuildCreate, GuildUpdate
<1>2. Change(e, t, u)' <=> Change(e, t, u)
  BY <1>1 DEF Change
<1>3. Told(t)' = Told(t)
  BY <1>1 DEF Told
<1>4. Old(c, t)' <=> Old(c, t)
  BY DEF Old
<1>5. Synced(c, t, q)' <=> Synced(c, t, q)
  BY DEF Synced, Agrees, SliceAgrees, IndexAgrees, MessagesAgree, CountAgrees, UnseenBy
<1> QED BY <1>2, <1>3, <1>4, <1>5

LEMMA HistoryKept ==
  ASSUME UNCHANGED <<part, truth, session>>, NEW h, History(h)
  PROVE  History(h)'
<1>1. \A e, t, u : Change(e, t, u)' <=> Change(e, t, u)
  BY EventsKept
<1>2. \A t : Told(t)' = Told(t)
  BY EventsKept
<1> QED BY <1>1, <1>2 DEF History, Beating

LEMMA AtKept ==
  ASSUME UNCHANGED <<part, cache, gap>>, NEW h, NEW k, NEW p, At(h, p),
         Len(session.log) \in Nat, Len(session'.log) \in Nat, Len(session.log) <= Len(session'.log),
         \A n \in 0..Len(session.log) : k[n] = h[n]
  PROVE  At(k, p)'
<1>1. p \in 0..Len(session.log) /\ p \in 0..Len(session'.log) /\ k[p] = h[p]
  BY DEF At
<1>2. p >= 1 => k[1] = h[1]
  BY <1>1
<1>3. Old(cache, k[p])'
  BY <1>1 DEF At, Old
<1>4. p = 1 /\ k[1].guild => Listed(cache, gap)'
  BY <1>1, <1>2 DEF At, Listed
<1>5. p > 1 \/ (p = 1 /\ ~k[1].guild) => Synced(cache, k[p], gap)'
  <2> SUFFICES ASSUME p > 1 \/ (p = 1 /\ ~k[1].guild) PROVE Synced(cache, k[p], gap)'
    OBVIOUS
  <2>1. Synced(cache, k[p], gap)
    BY <1>1, <1>2 DEF At
  <2> QED BY <2>1 DEF Synced, Agrees, SliceAgrees, IndexAgrees, MessagesAgree, CountAgrees, UnseenBy
<1> QED BY <1>1, <1>3, <1>4, <1>5 DEF At

\* The listeners hold what they held, and no connection has come up.
LEMMA StandsKept ==
  ASSUME UNCHANGED <<part, truth, session, cache, gap, generation, sequence, sessionID>>,
         Len(session.log) \in Nat,
         \A g \in Generations : /\ listener'[g].pc \in Hands <=> listener[g].pc \in Hands
                                /\ listener'[g].pc \in Hands => listener'[g] = listener[g]
                                /\ link'[g].state = "up" => link'[g] = link[g],
         loaded' \in {loaded, None}, NEW h, Stands(h)
  PROVE  Stands(h)'
<1>1. \A p : At(h, p) => At(h, p)'
  BY AtKept
<1>2. Idle' <=> Idle
  BY DEF Idle
<1>3. \A g \in Generations : listener'[g].pc = "apply" => listener'[g] = listener[g]
  BY DEF Hands
<1> QED BY <1>1, <1>2, <1>3 DEF Stands

LEMMA SyncTell ==
  ASSUME PathInv, SyncInv, ~Beating, part \in Parts, NEW e, NEW u, Change(e, truth, u), Tell(e, u)
  PROVE  SyncInv'
<1> SUFFICES ASSUME ~late', InTime' PROVE SyncInv'
  BY DEF SyncInv
<1>1. UNCHANGED <<part, link, generation, loaded, sessionID, sequence, cache, listener, late, gap>>
      /\ truth' = u
  BY DEF Tell, clientVars, pastVars
<1>2. InTime /\ (Idle' <=> Idle)
  BY <1>1 DEF InTime, Idle
<1>3. truth \in Truths /\ u \in Truths /\ e \in Events /\ session.log \in Seq(Events)
      /\ Len(session.log) \in Nat
  BY ChangeIs, LenProperties DEF PathInv, Types
<1>4. Old(cache, truth) /\ (~Idle => session.live)
  BY <1>1, <1>2 DEF SyncInv
<1>5. Old(cache, truth)'
  <2>1. part = "channel" => Ever(truth) \subseteq Ever(u)
    BY <1>3, EverGrows
  <2> QED BY <1>1, <1>4, <2>1 DEF Old
<1>6. session'.live = session.live
  BY DEF Tell, PathInv, Types
<1>7. ASSUME session.live PROVE \E k : History(k)' /\ Stands(k)'
  <2>1. PICK h : History(h) /\ Stands(h)
    BY <1>1, <1>2, <1>7 DEF SyncInv
  <2>2. PICK m : m = Len(session.log)
    OBVIOUS
  <2>3. m \in Nat /\ m >= 1 /\ h \in [0..m -> Truths]
    BY <1>3, <2>1, <2>2 DEF History
  <2>4. PICK k : k = [n \in 0..m + 1 |-> IF n = m + 1 THEN u ELSE h[n]]
    OBVIOUS
  <2>5. k \in [0..m + 1 -> Truths] /\ k[m + 1] = u /\ \A n \in 0..m : k[n] = h[n]
    BY <1>3, <2>3, <2>4
  <2>6. PICK r : r = Append(session.log, e)
    OBVIOUS
  <2>7. session'.log = r /\ Len(r) = m + 1 /\ r[m + 1] = e /\ \A n \in 1..m : r[n] = session.log[n]
    BY <1>3, <1>7, <2>2, <2>6, AppendProperties DEF Tell, PathInv, Types
  <2>8. History(k)'
    <3>1. /\ h[0] = h[1] /\ session.log[1] = [type |-> "READY", listed |-> h[1].guild]
          /\ h[1].guild => m >= 2 /\ h[2] = h[1] /\ session.log[2] = Told(h[1])
          /\ h[m] = truth
          /\ part = "channel" => \A n \in 0..m : Ever(h[n]) \subseteq Ever(truth)
      BY <2>1, <2>2 DEF History
    <3>2. \A n \in 2..m : n > 2 \/ ~h[1].guild => Change(session.log[n], h[n - 1], h[n])
      BY <2>1, <2>2 DEF History
    <3>3. k[0] = h[0] /\ k[1] = h[1] /\ r[1] = session.log[1]
          /\ (m >= 2 => k[2] = h[2] /\ r[2] = session.log[2])
      <4>1. 0 \in 0..m /\ 1 \in 0..m /\ 1 \in 1..m /\ (m >= 2 => 2 \in 0..m /\ 2 \in 1..m)
        BY <2>3
      <4> QED BY <2>5, <2>7, <4>1
    <3>4. ~Beating' /\ (\A x, y, z : Change(x, y, z)' <=> Change(x, y, z)) /\ \A x : Told(x)' = Told(x)
      BY <1>1, EventsKept DEF Beating
    <3>5. ASSUME NEW n \in 2..m + 1, n > 2 \/ ~k[1].guild
          PROVE  Change(r[n], k[n - 1], k[n])
      <4>1. CASE n = m + 1
        <5>1. m \in 0..m /\ n - 1 = m
          BY <2>3, <4>1
        <5>2. r[n] = e /\ k[n] = u /\ k[n - 1] = truth
          BY <2>5, <2>7, <3>1, <4>1, <5>1
        <5> QED BY <5>2
      <4>2. CASE n # m + 1
        <5>1. n \in 2..m /\ n \in 1..m /\ n \in 0..m /\ n - 1 \in 0..m
          BY <2>3, <4>2
        <5> QED BY <2>5, <2>7, <3>2, <3>3, <3>5, <5>1
      <4> QED BY <4>1, <4>2
    <3>6. part = "channel" => \A n \in 0..m + 1 : Ever(k[n]) \subseteq Ever(u)
      <4> SUFFICES ASSUME part = "channel", NEW n \in 0..m + 1 PROVE Ever(k[n]) \subseteq Ever(u)
        OBVIOUS
      <4>1. n = m + 1 \/ n \in 0..m
        BY <2>3
      <4>2. n \in 0..m => Ever(k[n]) \subseteq Ever(truth)
        BY <2>5, <3>1
      <4>3. Ever(truth) \subseteq Ever(u)
        BY <1>3, EverGrows
      <4> QED BY <2>5, <4>1, <4>2, <4>3
    <3>7. m + 1 >= 1 /\ (k[1].guild => m + 1 >= 2)
      BY <2>3, <3>1, <3>3
    <3> QED BY <1>1, <2>5, <2>7, <3>1, <3>3, <3>4, <3>5, <3>6, <3>7 DEF History
  <2>9. Stands(k)'
    <3>1. Len(session'.log) \in Nat /\ Len(session.log) <= Len(session'.log) /\ UNCHANGED <<part, cache, gap>>
      BY <1>1, <1>3, <2>2, <2>7
    <3>2. \A p : At(h, p) => At(k, p)'
      BY <1>3, <2>2, <2>5, <3>1, AtKept
    <3>3. session'.number = session.number
      BY DEF Tell, PathInv, Types
    <3> QED BY <1>1, <1>2, <2>1, <3>2, <3>3 DEF Stands
  <2> QED BY <2>8, <2>9
<1> QED BY <1>1, <1>2, <1>4, <1>5, <1>6, <1>7 DEF SyncInv

LEMMA SyncAside ==
  ASSUME PathInv, SyncInv, NEW h \in Generations, AsideNext(h)
  PROVE  SyncInv'
<1> SUFFICES ASSUME ~late', InTime' PROVE SyncInv'
  BY DEF SyncInv
<1>1. Aside
  BY AsideSteps DEF PathInv
<1>2. UNCHANGED <<part, truth, session, cache, gap, generation, sequence, sessionID, loaded, late>>
      /\ Len(session.log) \in Nat
  BY <1>1, LenProperties DEF Aside, eventVars, serverVars, clientVars, pastVars, PathInv, Types
<1>3. \A g \in Generations :
         /\ listener'[g].pc \in Hands <=> listener[g].pc \in Hands
         /\ listener'[g].pc \in Hands => listener'[g] = listener[g]
         /\ link'[g].state = "up" => link'[g] = link[g]
  <2>1. \A g \in Generations : link[g] \in Links(session.number) /\ session.number \in Nat
    BY DEF PathInv, Types
  <2> QED BY <1>1, <2>1, AsideLink, AsideListener, ClosedIs DEF PathInv, Hands, Places
<1>4. InTime /\ (Idle' <=> Idle)
  BY <1>2, <1>3 DEF InTime, Idle
<1>5. Old(cache, truth) /\ (~Idle => session.live) /\ (session.live => \E k : History(k) /\ Stands(k))
  BY <1>2, <1>4 DEF SyncInv
<1>6. Old(cache, truth)'
  BY <1>2, <1>5 DEF Old
<1>7. \A k : History(k) /\ Stands(k) => History(k)' /\ Stands(k)'
  BY <1>2, <1>3, HistoryKept, StandsKept
<1> QED BY <1>2, <1>4, <1>5, <1>6, <1>7 DEF SyncInv

LEMMA SyncOpen ==
  ASSUME PathInv, SyncInv, Open
  PROVE  SyncInv'
<1> SUFFICES ASSUME ~late', InTime' PROVE SyncInv'
  BY DEF SyncInv
<1> DEFINE h == generation'
<1>1. /\ h \in Generations /\ h = generation + 1 /\ loaded' = sequence + 1
      /\ link' = [link EXCEPT ![h] = [link[h] EXCEPT !.state = "hello"]]
      /\ listener' = [listener EXCEPT ![h] = Hand("read")]
  BY TypesOpen DEF PathInv
<1>2. UNCHANGED <<part, truth, session, cache, gap, sequence, sessionID, late>>
      /\ Len(session.log) \in Nat /\ generation \in Nat
  BY LenProperties, GatewaySessionAssumption
     DEF Open, serverVars, clientVars, pastVars, PathInv, Types
<1>3. /\ listener'[h].pc \notin Hands /\ link'[h].state = "hello" /\ listener[h].pc \notin Hands
      /\ \A g \in Generations \ {h} : listener'[g] = listener[g]
  <2>1. listener[h].pc = "off"
    BY <1>1, <1>2 DEF PathInv, Begun
  <2> QED BY <1>1, <2>1, HandMade DEF PathInv, Types, Links, Hands
<1>4. (\A g \in Generations : listener[g].pc \notin Hands) /\ Idle'
  BY <1>3 DEF InTime, Idle
<1>5. InTime /\ Idle
  BY <1>4 DEF InTime, Idle
<1>6. Old(cache, truth) /\ (session.live => \E k : History(k) /\ Stands(k))
  BY <1>2, <1>5 DEF SyncInv
<1>7. Old(cache, truth)'
  BY <1>2, <1>6 DEF Old
<1>8. ASSUME NEW k, History(k), Stands(k)
      PROVE  History(k)' /\ Stands(k)'
  <2>1. \A p : At(k, p) => At(k, p)'
    BY <1>2, AtKept
  <2>2. Stands(k)'
    BY <1>1, <1>2, <1>3, <1>5, <1>8, <2>1 DEF Stands
  <2> QED BY <1>2, <1>8, <2>2, HistoryKept
<1> QED BY <1>2, <1>4, <1>6, <1>7, <1>8 DEF SyncInv

\* While the newest generation connects, its listener has no event in hand.
LEMMA ConnectingIdle ==
  ASSUME PathInv, loaded # None
  PROVE  Idle
BY DEF PathInv, LinkInv, LinkOf, Idle

LEMMA SyncIdentify ==
  ASSUME PathInv, SyncInv, Identify
  PROVE  SyncInv'
<1> SUFFICES ASSUME ~late', InTime' PROVE SyncInv'
  BY DEF SyncInv
<1>1. /\ generation \in Generations /\ session'.number = session.number + 1
      /\ session'.log = Opening
      /\ link' = [link EXCEPT ![generation] =
                     [state |-> "up", session |-> session.number + 1, next |-> 1]]
      /\ session.number \in Nat
  BY TypesIdentify DEF PathInv, Types
<1>2. UNCHANGED <<part, truth, cache, gap, generation, listener, sessionID, late>>
      /\ loaded' = None /\ loaded # None /\ sessionID = None
  BY DEF Identify, clientVars
<1>3. InTime /\ Idle /\ Idle'
  BY <1>2, ConnectingIdle DEF InTime, Idle
<1>4. Old(cache, truth)
  BY <1>2, <1>3 DEF SyncInv
<1>5. Old(cache, truth)'
  BY <1>2, <1>4 DEF Old
<1>6. link'[generation].state = "up" /\ link'[generation].next = 1
  BY <1>1 DEF PathInv, Types
<1>7. PICK m, t : m = Len(Opening) /\ t = truth
  OBVIOUS
<1>8. PICK k : k = [n \in 0..m |-> t]
  OBVIOUS
<1>9. /\ m \in {1, 2} /\ t \in Truths /\ \A n \in 0..m : k[n] = t
      /\ k \in [0..m -> Truths] /\ k[0] = t /\ k[1] = t /\ k[m] = t
      /\ 2 \in 0..m => k[2] = t
  BY <1>7, <1>8, OpeningLog DEF PathInv, Types
<1>10. History(k)'
  <2>1. /\ Opening[1] = [type |-> "READY", listed |-> t.guild]
        /\ t.guild /\ ~Beating => m = 2 /\ Opening[2] = Told(t)
        /\ ~t.guild \/ Beating => m = 1
    BY <1>7, OpeningLog DEF PathInv, Payload, Told
  <2>2. (Beating' <=> Beating) /\ Told(t)' = Told(t)
    BY <1>2, EventsKept DEF Beating
  <2>3. \A n \in 2..m : ~(n > 2 \/ ~t.guild)
    BY <1>9, <2>1
  <2>4. \A n \in 0..m : Ever(k[n]) \subseteq Ever(t)
    BY <1>9
  <2>5. session'.log = Opening /\ truth' = t /\ part' = part
    BY <1>1, <1>2, <1>7
  <2>6. t.guild /\ ~Beating => k[2] = t
    BY <1>9, <2>1
  <2> QED BY <1>7, <1>9, <2>1, <2>2, <2>3, <2>4, <2>5, <2>6 DEF History
<1>11. Stands(k)'
  <2>1. At(k, 0)'
    <3>1. Old(cache, k[0])'
      BY <1>2, <1>4, <1>7, <1>9 DEF Old
    <3>2. 0 \in 0..Len(session'.log)
      BY <1>1, <1>7, <1>9
    <3> QED BY <3>1, <3>2 DEF At
  <2>2. sessionID' # session'.number /\ loaded' = None
    BY <1>1, <1>2 DEF None
  <2>3. \A g \in Generations : g = generation' => link'[g].next - 1 = 0 /\ listener'[g].pc \notin Hands
    BY <1>2, <1>3, <1>6 DEF Idle
  <2> QED BY <2>1, <2>2, <2>3 DEF Stands
<1> QED BY <1>3, <1>5, <1>10, <1>11 DEF SyncInv

LEMMA SyncResume ==
  ASSUME PathInv, SyncInv, Resume
  PROVE  SyncInv'
<1> SUFFICES ASSUME ~late', InTime' PROVE SyncInv'
  BY DEF SyncInv
<1>1. generation \in Generations
      /\ link' = [link EXCEPT ![generation] =
                     [state |-> "up", session |-> sessionID, next |-> loaded]]
  BY TypesResume DEF PathInv
<1>2. UNCHANGED <<part, truth, session, cache, gap, generation, sequence, sessionID, listener, late>>
      /\ Len(session.log) \in Nat /\ sequence \in Nat /\ loaded' = None /\ loaded # None
      /\ sessionID = session.number
  BY LenProperties DEF Resume, serverVars, clientVars, pastVars, PathInv, Types
<1>3. InTime /\ Idle /\ Idle'
  BY <1>2, ConnectingIdle DEF InTime, Idle
<1>4. Old(cache, truth) /\ (session.live => \E k : History(k) /\ Stands(k))
  BY <1>2, <1>3 DEF SyncInv
<1>5. Old(cache, truth)'
  BY <1>2, <1>4 DEF Old
<1>6. link'[generation].next = loaded
  BY <1>1 DEF PathInv, Types
<1>7. ASSUME NEW k, History(k), Stands(k)
      PROVE  History(k)' /\ Stands(k)'
  <2>1. \A p : At(k, p) => At(k, p)'
    BY <1>2, AtKept
  <2>2. At(k, sequence) /\ loaded = sequence + 1
    BY <1>2, <1>3, <1>7 DEF Stands
  <2>3. At(k, sequence)' /\ loaded - 1 = sequence
    BY <1>2, <2>1, <2>2
  <2>4. \A g \in Generations : g = generation' =>
           link'[g].next - 1 = sequence' /\ listener'[g].pc \notin Hands
    BY <1>2, <1>3, <1>6, <2>3 DEF Idle
  <2>5. Stands(k)'
    BY <1>2, <2>3, <2>4 DEF Stands
  <2> QED BY <1>2, <1>7, <2>5, HistoryKept
<1> QED BY <1>2, <1>3, <1>4, <1>5, <1>7 DEF SyncInv

LEMMA SyncRefuse ==
  ASSUME PathInv, SyncInv, Refuse \/ AuthenticateFails
  PROVE  SyncInv'
<1> SUFFICES ASSUME ~late', InTime' PROVE SyncInv'
  BY DEF SyncInv
<1>1. UNCHANGED <<part, truth, cache, gap, generation, sequence, sessionID, listener, late>>
      /\ Len(session.log) \in Nat /\ loaded' = None /\ loaded # None
  BY LenProperties DEF Refuse, AuthenticateFails, serverVars, clientVars, pastVars, PathInv, Types
<1>2. session'.live => session.live /\ session' = session
  <2>1. CASE Refuse
    BY <2>1, TypesRefuse DEF PathInv
  <2>2. CASE AuthenticateFails
    BY <2>2 DEF AuthenticateFails, serverVars
  <2> QED BY <2>1, <2>2
<1>3. \A g \in Generations : link'[g].state = "up" => link'[g] = link[g]
  <2>1. CASE Refuse
    BY <2>1, TypesRefuse DEF PathInv, Types
  <2>2. CASE AuthenticateFails
    BY <2>2 DEF AuthenticateFails
  <2> QED BY <2>1, <2>2
<1>4. InTime /\ Idle /\ Idle'
  BY <1>1, ConnectingIdle DEF InTime, Idle
<1>5. Old(cache, truth) /\ (session.live => \E k : History(k) /\ Stands(k))
  BY <1>1, <1>4 DEF SyncInv
<1>6. Old(cache, truth)'
  BY <1>1, <1>5 DEF Old
<1>7. session'.live => \A k : History(k) /\ Stands(k) => History(k)' /\ Stands(k)'
  BY <1>1, <1>2, <1>3, HistoryKept, StandsKept
<1> QED BY <1>2, <1>4, <1>5, <1>6, <1>7 DEF SyncInv

LEMMA SyncRead ==
  ASSUME PathInv, SyncInv, NEW g \in Generations, Read(g)
  PROVE  SyncInv'
<1> SUFFICES ASSUME ~late', InTime' PROVE SyncInv'
  BY DEF SyncInv
<1> DEFINE hand == [pc |-> "store", number |-> link[g].next, event |-> session.log[link[g].next]]
<1>1. /\ link' = [link EXCEPT ![g] = [link[g] EXCEPT !.next = link[g].next + 1]]
      /\ listener' = [listener EXCEPT ![g] = hand]
      /\ link[g].next \in Nat
  BY TypesRead DEF PathInv
<1>2. UNCHANGED <<part, truth, session, cache, gap, generation, loaded, sequence, sessionID, late>>
      /\ Len(session.log) \in Nat /\ link[g].state = "up" /\ listener[g].pc = "read"
  BY LenProperties DEF Read, Unread, serverVars, clientVars, PathInv, Types
<1>3. g = generation /\ session.live /\ loaded = None
  BY <1>2 DEF PathInv, LinkInv, LinkOf
<1>4. \A i \in Generations \ {g} : listener'[i] = listener[i]
  BY <1>1 DEF PathInv, Types
<1>5. InTime /\ Idle
  BY <1>2, <1>3, <1>4 DEF InTime, Idle, Hands
<1>6. listener'[g].pc = "store" /\ listener'[g].number = link[g].next /\ listener'[g].pc \in Hands
      /\ link'[g].next = link[g].next + 1
  BY <1>1 DEF PathInv, Types, Links, Hands
<1>7. Old(cache, truth)'
  BY <1>2, <1>5 DEF SyncInv, Old
<1>8. PICK k : History(k) /\ Stands(k)
  BY <1>2, <1>3, <1>5 DEF SyncInv
<1>9. Stands(k)'
  <2>1. \A p : At(k, p) => At(k, p)'
    BY <1>2, AtKept
  <2>2. At(k, link[g].next - 1)
    BY <1>2, <1>3, <1>8 DEF Stands, Hands
  <2>3. PICK p : p = link[g].next - 1
    OBVIOUS
  <2>4. At(k, p)'
    BY <2>1, <2>2, <2>3
  <2>5. \A i \in Generations : i = generation' =>
           /\ listener'[i].pc = "store" /\ listener'[i].pc \in Hands
           /\ listener'[i].number - 1 = p /\ link'[i].next = listener'[i].number + 1
    BY <1>2, <1>3, <1>6, <2>3
  <2>6. ~Idle' /\ loaded' = None
    BY <1>2, <1>3, <1>6 DEF Idle
  <2> QED BY <2>4, <2>5, <2>6 DEF Stands
<1>10. History(k)'
  BY <1>2, <1>8, HistoryKept
<1> QED BY <1>2, <1>3, <1>7, <1>9, <1>10 DEF SyncInv

LEMMA SyncStore ==
  ASSUME PathInv, SyncInv, NEW g \in Generations, StoreSequence(g)
  PROVE  SyncInv'
<1> SUFFICES ASSUME ~late', InTime' PROVE SyncInv'
  BY DEF SyncInv
<1>1. /\ listener'[g].pc = "apply" /\ listener'[g].number = listener[g].number
      /\ \A i \in Generations \ {g} : listener'[i] = listener[i]
  BY TypesStore DEF PathInv
<1>2. UNCHANGED <<part, truth, session, link, cache, gap, generation, loaded, sessionID>>
      /\ Len(session.log) \in Nat /\ sequence' = listener[g].number /\ listener[g].pc = "store"
      /\ ~late /\ g = generation
  BY LenProperties DEF StoreSequence, Past, serverVars, PathInv, Types
<1>3. listener[g].pc \in Hands /\ listener'[g].pc \in Hands
  BY <1>1, <1>2 DEF Hands
<1>4. InTime /\ ~Idle /\ ~Idle'
  BY <1>1, <1>2, <1>3 DEF InTime, Idle
<1>5. loaded = None
  BY <1>4, ConnectingIdle
<1>6. Old(cache, truth)' /\ session.live
  BY <1>2, <1>4 DEF SyncInv, Old
<1>7. PICK k : History(k) /\ Stands(k)
  BY <1>2, <1>4, <1>6 DEF SyncInv
<1>8. Stands(k)'
  <2>1. \A p : At(k, p) => At(k, p)'
    BY <1>2, AtKept
  <2>2. At(k, listener[g].number - 1) /\ (link[g].state = "up" => link[g].next = listener[g].number + 1)
    BY <1>2, <1>3, <1>7 DEF Stands
  <2>3. PICK p : p = listener[g].number - 1
    OBVIOUS
  <2>4. At(k, p)'
    BY <2>1, <2>2, <2>3
  <2>5. \A i \in Generations : i = generation' =>
           /\ listener'[i].pc \in Hands /\ listener'[i].number - 1 = p
           /\ link'[i].state = "up" => link'[i].next = listener'[i].number + 1
           /\ sequence' = listener'[i].number
    BY <1>1, <1>2, <1>3, <2>2, <2>3
  <2> QED BY <1>2, <1>4, <1>5, <2>4, <2>5 DEF Stands
<1>9. History(k)'
  BY <1>2, <1>7, HistoryKept
<1> QED BY <1>2, <1>6, <1>8, <1>9 DEF SyncInv

LEMMA SyncApply ==
  ASSUME PathInv, SyncInv, NEW g \in Generations, Apply(g)
  PROVE  SyncInv'
<1> SUFFICES ASSUME ~late', InTime' PROVE SyncInv'
  BY DEF SyncInv
<1>1. listener' = [listener EXCEPT ![g] = Hand("read")] /\ Hand("read").pc = "read"
  BY TypesApply DEF PathInv
<1>2. UNCHANGED <<part, truth, session, link, generation, loaded, sequence>>
      /\ listener[g].pc = "apply" /\ ~late /\ g = generation
      /\ cache' = OnInterface(part, cache, listener[g].event)
      /\ IF listener[g].event.type = "READY"
         THEN sessionID' = link[g].session /\ gap' = (cache # NewState)
         ELSE sessionID' = sessionID /\ gap' = gap
  BY DEF Apply, Past, serverVars
<1>3. listener[g].pc \in Hands /\ listener'[g].pc \notin Hands
      /\ \A i \in Generations \ {g} : listener'[i] = listener[i]
  BY <1>1, <1>2 DEF Hands, PathInv, Types
<1>4. InTime /\ ~Idle /\ Idle'
  BY <1>2, <1>3 DEF InTime, Idle
<1>5. loaded = None
  BY <1>4, ConnectingIdle
<1>6. session.live /\ Old(cache, truth)
  BY <1>2, <1>4 DEF SyncInv
<1>7. PICK k : History(k) /\ Stands(k)
  BY <1>2, <1>4, <1>6 DEF SyncInv
<1>8. PICK n : n = listener[g].number
  OBVIOUS
<1>9. /\ ~Beating /\ part \in Parts /\ session.number # None /\ link[g].session = session.number
      /\ n \in 1..Len(session.log) /\ listener[g].event = session.log[n]
  <2>1. ~Beating /\ part \in Parts
    BY <1>3, GatewaySessionAssumption DEF PathInv, Types, Beating
  <2>2. HandOf(g) /\ session.number # None
    BY <1>6 DEF PathInv, LinkInv
  <2>3. DOMAIN session.log = 1..Len(session.log)
    BY LenProperties DEF PathInv, Types
  <2> QED BY <1>2, <1>3, <1>6, <1>8, <2>1, <2>2, <2>3 DEF HandOf
<1>10. /\ At(k, n - 1) /\ (link[g].state = "up" => link[g].next = n + 1)
       /\ sequence = n \/ (sequence = 0 /\ sessionID = None)
  BY <1>2, <1>3, <1>7, <1>8 DEF Stands
<1>11. /\ listener[g].event.type = "READY" <=> n = 1
       /\ Old(cache', k[n])
       /\ n = 1 /\ k[1].guild => Listed(cache', gap')
       /\ n > 1 \/ (n = 1 /\ ~k[1].guild) => Synced(cache', k[n], gap')
  <2> DEFINE e == session.log[n]
             d == OnInterface(part, cache, e)
             q == IF n = 1 THEN cache # NewState ELSE gap
  <2>1. /\ e.type = "READY" <=> n = 1
        /\ Old(d, k[n])
        /\ n = 1 /\ k[1].guild => Listed(d, q)
        /\ n > 1 \/ (n = 1 /\ ~k[1].guild) => Synced(d, k[n], q)
    BY <1>7, <1>9, <1>10, ApplyAgrees
  <2>2. d = cache' /\ listener[g].event = e
    BY <1>2, <1>9
  <2> HIDE DEF d, e
  <2>3. q <=> gap'
    BY <1>2, <2>1, <2>2
  <2>4. q = gap'
    <3>1. gap' \in BOOLEAN /\ gap \in BOOLEAN
      BY TypesApply DEF PathInv, Types
    <3>2. q \in BOOLEAN
      BY <3>1
    <3> QED BY <2>3, <3>1, <3>2
  <2> HIDE DEF q
  <2> QED BY <2>1, <2>2, <2>4
<1>12. At(k, n)'
  <2>1. n \in 0..Len(session'.log)
    BY <1>2, <1>9
  <2>2. Old(cache, k[n])'
    BY <1>2, <1>11 DEF Old
  <2>3. n = 1 /\ k[1].guild => Listed(cache, gap)'
    BY <1>11 DEF Listed
  <2>4. n > 1 \/ (n = 1 /\ ~k[1].guild) => Synced(cache, k[n], gap)'
    BY <1>2, <1>11
       DEF Synced, Agrees, SliceAgrees, IndexAgrees, MessagesAgree, CountAgrees, UnseenBy
  <2> QED BY <2>1, <2>2, <2>3, <2>4 DEF At
\* The session id was cleared between the sequence and READY: the resumed session begins anew.
<1>13. n = 1 => At(k, 0)'
  <2> SUFFICES ASSUME n = 1 PROVE At(k, 0)'
    OBVIOUS
  <2>1. k[0] = k[n]
    BY <1>7 DEF History
  <2>2. Old(cache, k[0])'
    BY <1>2, <1>11, <2>1 DEF Old
  <2>3. 0 \in 0..Len(session'.log)
    BY <1>2, <1>9
  <2> QED BY <2>2, <2>3 DEF At
<1>14. Old(cache, truth)'
  <2>1. part = "channel" => Ever(k[n]) \subseteq Ever(truth)
    <3>1. n \in 0..Len(session.log)
      BY <1>9
    <3> QED BY <1>7, <3>1 DEF History
  <2> QED BY <1>2, <1>11, <2>1 DEF Old
<1>15. Stands(k)'
  <2>1. sessionID' = session'.number => At(k, sequence)'
    <3>1. CASE sequence = n
      BY <1>2, <1>12, <3>1
    <3>2. CASE sequence = 0 /\ sessionID = None
      BY <1>2, <1>9, <1>11, <1>13, <3>2
    <3> QED BY <1>10, <3>1, <3>2
  <2>2. \A i \in Generations : i = generation' =>
           listener'[i].pc \notin Hands /\ (link'[i].state = "up" => link'[i].next - 1 = n)
    BY <1>2, <1>3, <1>9, <1>10
  <2>3. loaded' = None
    BY <1>2, <1>5
  <2> QED BY <1>12, <2>1, <2>2, <2>3 DEF Stands
<1>16. History(k)'
  BY <1>2, <1>7, HistoryKept
<1> QED BY <1>4, <1>14, <1>15, <1>16 DEF SyncInv

LEMMA SyncInvalid ==
  ASSUME PathInv, SyncInv, NEW g \in Generations, InvalidSession(g)
  PROVE  SyncInv'
<1> SUFFICES ASSUME ~late', InTime' PROVE SyncInv'
  BY DEF SyncInv
<1>1. /\ sessionID' = None /\ sequence' = 0
      /\ link' = [link EXCEPT ![g] = Closed(link[g])]
      /\ listener' = [listener EXCEPT ![g] = Hand("ended")] /\ Hand("ended").pc = "ended"
  BY TypesInvalid DEF PathInv
<1>2. UNCHANGED <<part, truth, cache, gap, generation, loaded, late>>
      /\ listener[g].pc \notin Hands
      /\ IF g = generation THEN ~session'.live ELSE session' = session
  BY DEF InvalidSession, Hands, PathInv, Types
<1>3. listener'[g].pc \notin Hands
      /\ \A i \in Generations \ {g} : listener'[i] = listener[i] /\ link'[i] = link[i]
  BY <1>1 DEF Hands, PathInv, Types
<1>4. InTime /\ (Idle' <=> Idle)
  BY <1>2, <1>3 DEF InTime, Idle
<1>5. Old(cache, truth) /\ (~Idle => session.live) /\ (session.live => \E k : History(k) /\ Stands(k))
  BY <1>2, <1>4 DEF SyncInv
<1>6. Old(cache, truth)'
  BY <1>2, <1>5 DEF Old
<1>7. CASE g = generation
  BY <1>2, <1>4, <1>6, <1>7 DEF SyncInv, Idle
<1>8. CASE g # generation
  <2>1. session' = session /\ Len(session.log) \in Nat
    BY <1>2, <1>8, LenProperties DEF PathInv, Types
  <2>2. ASSUME session.live, NEW k, History(k), Stands(k)
        PROVE  History(k)' /\ Stands(k)'
    <3>1. \A p : At(k, p) => At(k, p)'
      BY <1>2, <2>1, AtKept
    <3>2. session.number # None
      BY <2>2 DEF PathInv, LinkInv
    <3>3. \A i \in Generations : i = generation' => listener'[i] = listener[i] /\ link'[i] = link[i]
      BY <1>2, <1>3, <1>8
    <3>4. Stands(k)'
      BY <1>1, <1>2, <2>1, <2>2, <3>1, <3>2, <3>3 DEF Stands
    <3> QED BY <1>2, <2>1, <2>2, <3>4, HistoryKept
  <2> QED BY <1>4, <1>5, <1>6, <2>1, <2>2 DEF SyncInv
<1> QED BY <1>7, <1>8

LEMMA SyncStep == PathInv /\ SyncInv /\ [Next]_vars => SyncInv'
<1> SUFFICES ASSUME PathInv, SyncInv, [Next]_vars PROVE SyncInv'
  OBVIOUS
<1>1. CASE UNCHANGED vars
  <2>1. UNCHANGED <<part, truth, session, cache, gap, generation, sequence, sessionID, loaded, late,
                    listener, link>> /\ Len(session.log) \in Nat
    BY <1>1, LenProperties DEF vars, eventVars, serverVars, clientVars, pastVars, PathInv, Types
  <2>2. \A k : History(k) /\ Stands(k) => History(k)' /\ Stands(k)'
    BY <2>1, HistoryKept, StandsKept
  <2>3. (InTime' <=> InTime) /\ (Idle' <=> Idle) /\ (Old(cache, truth) => Old(cache, truth)')
    BY <2>1 DEF InTime, Idle, Old
  <2> QED BY <2>1, <2>2, <2>3 DEF SyncInv
<1>2. CASE ServerNext
  <2>1. PICK e, u : Change(e, truth, u) /\ Tell(e, u)
    BY <1>2, ServerTells DEF PathInv
  <2> QED BY <1>2, <2>1, ServerTells, SyncTell DEF PathInv
<1>3. CASE OpenNext
  BY <1>3, SyncOpen, SyncIdentify, SyncResume, SyncRefuse DEF OpenNext
<1>4. ASSUME NEW g \in Generations, \/ AsideNext(g) \/ Read(g) \/ StoreSequence(g) \/ Apply(g)
                                    \/ InvalidSession(g)
      PROVE  SyncInv'
  BY <1>4, SyncAside, SyncRead, SyncStore, SyncApply, SyncInvalid
<1> QED BY <1>1, <1>2, <1>3, <1>4, Steps

LEMMA SyncAlways == Spec => [](PathInv /\ SyncInv /\ SilentInv)
BY SyncInit, SyncStep, SilentStep, PathInit, PathStep, PTL DEF Spec

\* When all that was sent has been applied, the cache that onInterface keeps agrees with the
\* guild, through connections resumed and sessions begun anew, whatever changed and whenever
\* connections were lost: up to the three things InSync names, and as long as no listener that
\* was left over has applied an event after a newer connection had begun.
THEOREM CacheInSync == Spec => []InSync
<1>1. PathInv /\ SyncInv /\ SilentInv => InSync
  <2> SUFFICES ASSUME PathInv, SyncInv, SilentInv, Quiet, ~late
               PROVE  /\ cache.guilds => truth.guild
                      /\ ~gap => cache.guilds = truth.guild /\ cache.guildMap = truth.guild
                      /\ truth.guild => SliceInSync /\ IndexInSync /\ MessagesInSync
                      /\ truth.guild /\ part = "member" => cache.count = Present(truth.items) + 1
    BY DEF InSync
  <2>1. /\ generation \in Generations /\ Len(session.log) \in Nat
        /\ cache.guilds \in BOOLEAN /\ cache.guildMap \in BOOLEAN /\ truth.guild \in BOOLEAN
    <3>1. generation \in 0..MaxGenerations /\ MaxGenerations \in Nat
      BY GatewaySessionAssumption DEF PathInv, Types
    <3>2. generation \in Generations
      BY <3>1 DEF Quiet, Generations
    <3> QED BY <3>2, LenProperties DEF PathInv, Types, CacheType, Truths
  <2>2. \A g \in Generations : listener[g].pc \notin Hands
    BY DEF Quiet, InHand, Hands
  <2>3. session.live /\ link[generation].state = "up" /\ link[generation].next - 1 = Len(session.log)
    <3>1. LinkOf(generation) /\ link[generation] \in Links(session.number)
      BY <2>1 DEF PathInv, LinkInv, Types
    <3>2. link[generation].next \in Nat
      BY <3>1 DEF Links
    <3>3. session.live /\ link[generation].next <= Len(session.log) + 1
      BY <3>1 DEF Quiet, LinkOf
    <3>4. ~(link[generation].next <= Len(session.log)) /\ link[generation].state = "up"
      BY DEF Quiet, Unread
    <3> QED BY <2>1, <3>2, <3>3, <3>4
  <2>4. PICK h : History(h) /\ Stands(h)
    BY <2>2, <2>3 DEF SyncInv, InTime
  <2>5. At(h, Len(session.log)) /\ Len(session.log) >= 1 /\ h[Len(session.log)] = truth
    <3>1. At(h, link[generation].next - 1)
      BY <2>1, <2>2, <2>3, <2>4 DEF Stands
    <3>2. Len(session.log) >= 1 /\ h[Len(session.log)] = truth
      BY <2>4 DEF History
    <3>3. link[generation].next - 1 = Len(session.log)
      BY <2>3
    <3> QED BY <3>1, <3>2, <3>3, Zenon
  <2>6. ~Beating
    BY <2>1, <2>3, <2>5 DEF SilentInv
  <2>7. Synced(cache, truth, gap)
    <3>1. h[1].guild => Len(session.log) >= 2
      BY <2>4, <2>6 DEF History
    <3>2. Len(session.log) > 1 \/ (Len(session.log) = 1 /\ ~h[1].guild)
      <4>1. \A n \in Nat : n >= 1 => n > 1 \/ (n = 1 /\ ~(n >= 2))
        OBVIOUS
      <4>2. Len(session.log) \in Nat /\ Len(session.log) >= 1
        BY <2>1, <2>5
      <4> QED BY <3>1, <4>1, <4>2, Zenon
    <3>3. Synced(cache, h[Len(session.log)], gap)
      BY <2>5, <3>2 DEF At
    <3>4. h[Len(session.log)] = truth
      BY <2>5
    <3> QED BY <3>3, <3>4, Zenon
  <2>8. Unseen <=> UnseenBy(truth, gap)
    BY DEF Unseen, UnseenBy
  <2>9. CASE truth.guild
    <3>1. Agrees(cache, truth, gap)
      BY <2>7, <2>9 DEF Synced
    <3>2. SliceInSync
      BY <2>8, <3>1 DEF Agrees, SliceAgrees, SliceInSync
    <3>3. IndexInSync
      BY <2>8, <3>1 DEF Agrees, IndexAgrees, IndexInSync
    <3>4. MessagesInSync
      BY <3>1 DEF Agrees, MessagesAgree, MessagesInSync, SilentInv
    <3> QED BY <2>1, <2>9, <3>1, <3>2, <3>3, <3>4 DEF Agrees, CountAgrees
  <2>10. CASE ~truth.guild
    BY <2>1, <2>7, <2>10 DEF Synced
  <2> QED BY <2>9, <2>10
<1> QED BY <1>1, SyncAlways, PTL

=============================================================================
