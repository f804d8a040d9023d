------------------------- MODULE ConversationProofs -------------------------
(***************************************************************************)
(* What holds of the shared records however many peers, messages, posts,   *)
(* crashes, broken connections and failing writes there are.               *)
(***************************************************************************)
EXTENDS Conversation, PaddingProofs

\* TypeOK by who owns what.
ServerType == acked \subseteq Ids /\ pushed \subseteq Ids /\ link \in {"up", "down"}
DiskType ==
  /\ session \in [Peers -> Record \union {None}]
  /\ identity \in [Peers -> Keys \union {Empty, None}]
  /\ used \subseteq Peers \X Keys /\ recipient \in Peers \union {None}
WorkerType ==
  /\ wpc \in WorkerPcs /\ msg \in Ids \union {None}
  /\ base \in Record \union {None} /\ rec \in Record \union {None}
  /\ pending \subseteq {"identity", "used", "session"}
MainType ==
  /\ mpc \in {"idle", "find", "load", "delete", "write"}
  /\ to \in Peers \union {None} /\ copy \in Record \union {None}
  /\ posts \in 0..MaxPosts
HistoryType ==
  /\ shown \in [Ids -> Nat] /\ handled \subseteq Ids
  /\ encrypted \in [Peers -> 0..MaxPosts]
  /\ stale \subseteq {"worker", "main"} /\ clobbered \in BOOLEAN
BoundsType == crashes \in 0..MaxCrashes /\ drops \in 0..MaxDrops /\ failures \in 0..MaxFailures

LEMMA TypeParts ==
  TypeOK <=> /\ ServerType /\ DiskType /\ WorkerType
             /\ MainType /\ HistoryType /\ BoundsType
<1> QED BY DEF TypeOK, ServerType, DiskType, WorkerType, MainType, HistoryType, BoundsType

\* The posts whose record may be on disk already, and those that may have
\* been counted in encrypted: a post that is under way is in neither.
Saved == IF mpc \in {"find", "load"} THEN posts - 1 ELSE posts
Counted == IF mpc = "idle" THEN posts ELSE posts - 1

Counts ==
  /\ Saved >= 0 /\ Counted >= 0
  /\ \A p \in Peers : session[p] # None => session[p].sent <= Saved
  /\ base # None => base.sent <= Saved
  /\ rec # None => rec.sent <= Saved
  /\ copy # None => copy.sent <= posts
  /\ \A p \in Peers : encrypted[p] <= Counted

\* Each thread has what its next step works on.
Holding ==
  /\ wpc # "read" => msg \in Ids
  /\ wpc \in {"store", "write", "name"} => rec \in Record /\ rec.key = Key(msg)
  /\ mpc \in {"load", "delete", "write"} => to \in Peers
  /\ mpc \in {"delete", "write"} => copy \in Record

\* Between the check of is_trusted_identity and the save no other key gets
\* in: there is none on disk, or the key of the message, or a record that is
\* being written with it.
Pinning ==
  /\ wpc \in {"store", "write"} =>
       identity[From(msg)] \in IF "identity" \in pending THEN {Key(msg), None} ELSE {Key(msg)}
  /\ wpc = "name" => identity[From(msg)] = Empty
  /\ wpc \in {"show", "forget", "remember"} => identity[From(msg)] = Key(msg)

Remembering == wpc \in {"forget", "remember"} => msg \in ShownTexts

Acking == wpc = "ack" => msg \in handled

ConversationInv ==
  /\ TypeOK /\ Counts /\ Holding
  /\ Pinning /\ ShownFromPinned
  /\ Remembering /\ RecipientWasShown
  /\ Acking /\ AckedWasHandled

LEMMA MessageFact ==
  ASSUME NEW m \in Ids
  PROVE  /\ From(m) \in Peers /\ Key(m) \in Keys
         /\ Messages[m].type \in {"prekey", "cipher", "other"}
         /\ Messages[m].content \in Contents
<1> DEFINE M == [from : Peers, key : Keys, type : {"prekey", "cipher", "other"},
                 content : Contents, bytes : Seq(Byte)]
<1>1. Messages \in Seq(M)
  BY MessagesAssumption
<1>2. Messages[m] \in M
  <2> HIDE DEF M
  <2> QED BY <1>1 DEF Ids
<1> QED BY <1>2 DEF From, Key

LEMMA InitConversation == Init => ConversationInv
<1> SUFFICES ASSUME Init PROVE ConversationInv
  OBVIOUS
<1> USE BoundsAssumption DEF Init
<1>1. ServerType /\ DiskType
  BY DEF ServerType, DiskType
<1>2. WorkerType /\ MainType
  BY DEF WorkerType, WorkerPcs, MainType
<1>3. HistoryType /\ BoundsType
  <2>1. shown \in [Ids -> Nat] /\ encrypted \in [Peers -> 0..MaxPosts]
    OBVIOUS
  <2>2. handled \subseteq Ids /\ stale = {} /\ clobbered \in BOOLEAN
    OBVIOUS
  <2>3. BoundsType
    BY DEF BoundsType
  <2> QED BY <2>1, <2>2, <2>3 DEF HistoryType
<1>4. Counts /\ Holding
  BY DEF Counts, Saved, Counted, Holding
<1>5. Pinning /\ ShownFromPinned /\ Remembering /\ RecipientWasShown /\ Acking /\ AckedWasHandled
  BY DEF Pinning, ShownFromPinned, Remembering, RecipientWasShown, Acking, AckedWasHandled
<1> QED BY <1>1, <1>2, <1>3, <1>4, <1>5, TypeParts DEF ConversationInv

-----------------------------------------------------------------------------
(* Who changes what.                                                        *)

LEMMA ServerFrame ==
  ASSUME [Next]_vars
  PROVE  UNCHANGED server \/ Connect \/ Drop \/ Crash \/ Read \/ Ack
<1> QED BY DEF Next, WorkerStep, MainStep, vars, server, Load, MarkUsed, SaveIdentity, WriteIdentity,
        StoreDelete, StoreWrite, Show, Forget, Remember, Post, Find, LoadCopy, CopyDelete, CopyWrite

LEMMA DiskFrame ==
  ASSUME [Next]_vars
  PROVE  /\ UNCHANGED session \/ StoreDelete \/ StoreWrite \/ CopyDelete \/ CopyWrite
         /\ UNCHANGED identity \/ SaveIdentity \/ WriteIdentity
         /\ UNCHANGED used \/ MarkUsed
         /\ UNCHANGED recipient \/ Forget \/ Remember
<1> USE DEF vars, disk
<1>1. CASE Connect \/ Read \/ Load \/ Show \/ Ack \/ Drop \/ Crash \/ UNCHANGED vars
  BY <1>1 DEF Connect, Read, Load, Show, Ack, Drop, Crash
<1>2. CASE MarkUsed \/ SaveIdentity \/ WriteIdentity \/ StoreDelete \/ StoreWrite \/ Forget \/ Remember
  BY <1>2 DEF MarkUsed, SaveIdentity, WriteIdentity, StoreDelete, StoreWrite, Forget, Remember
<1>3. CASE MainStep \/ Post
  BY <1>3 DEF MainStep, Post, Find, LoadCopy, CopyDelete, CopyWrite
<1> QED BY <1>1, <1>2, <1>3 DEF Next, WorkerStep

LEMMA WorkerFrame ==
  ASSUME [Next]_vars
  PROVE  UNCHANGED worker \/ Crash \/ WorkerStep
<1> QED BY DEF Next, MainStep, vars, worker, Drop, Post, Find, LoadCopy, CopyDelete, CopyWrite

LEMMA MainFrame ==
  ASSUME [Next]_vars
  PROVE  /\ UNCHANGED main \/ Crash \/ Post \/ MainStep
         /\ UNCHANGED posts \/ Post
         /\ UNCHANGED encrypted \/ CopyWrite
<1> USE DEF vars, main, history
<1>1. CASE Connect \/ Read \/ Load \/ Show \/ Ack \/ Drop \/ Crash \/ UNCHANGED vars
  BY <1>1 DEF Connect, Read, Load, Show, Ack, Drop, Crash
<1>2. CASE MarkUsed \/ SaveIdentity \/ WriteIdentity \/ StoreDelete \/ StoreWrite \/ Forget \/ Remember
  BY <1>2 DEF MarkUsed, SaveIdentity, WriteIdentity, StoreDelete, StoreWrite, Forget, Remember
<1>3. CASE MainStep \/ Post
  BY <1>3 DEF MainStep, Post, Find, LoadCopy, CopyDelete, CopyWrite
<1> QED BY <1>1, <1>2, <1>3 DEF Next, WorkerStep

LEMMA ShownFrame ==
  ASSUME [Next]_vars
  PROVE  UNCHANGED shown \/ Show
<1> QED BY DEF Next, WorkerStep, MainStep, vars, history, Connect, Read, Load, Ack, Drop, Crash, MarkUsed,
        SaveIdentity, WriteIdentity, StoreDelete, StoreWrite, Forget, Remember, Post, Find, LoadCopy,
        CopyDelete, CopyWrite

LEMMA HandledFrame ==
  ASSUME [Next]_vars
  PROVE  UNCHANGED handled \/ (handled' = handled \union {msg} /\ wpc # "read")
<1> USE DEF vars, history
<1>1. CASE Connect \/ Read \/ Ack \/ Drop \/ Crash \/ UNCHANGED vars
  BY <1>1 DEF Connect, Read, Ack, Drop, Crash
<1>2. CASE Load
  BY <1>2 DEF Load, DispatchEnds
<1>3. CASE Show
  BY <1>3 DEF Show, DispatchEnds
<1>4. CASE MarkUsed \/ SaveIdentity \/ WriteIdentity \/ StoreDelete \/ StoreWrite \/ Forget \/ Remember
  BY <1>4 DEF MarkUsed, SaveIdentity, WriteIdentity, StoreDelete, StoreWrite, Forget, Remember,
              Stored, DispatchEnds
<1>5. CASE MainStep \/ Post
  BY <1>5 DEF MainStep, Post, Find, LoadCopy, CopyDelete, CopyWrite
<1> QED BY <1>1, <1>2, <1>3, <1>4, <1>5 DEF Next, WorkerStep

LEMMA StoresFrame ==
  ASSUME [Next]_vars
  PROVE  UNCHANGED stores \/ Load \/ StoreWrite \/ LoadCopy \/ CopyWrite
<1> USE DEF vars, history, stores
<1>1. CASE Connect \/ Read \/ Show \/ Ack \/ Drop \/ Crash \/ UNCHANGED vars
  BY <1>1 DEF Connect, Read, Show, Ack, Drop, Crash
<1>2. CASE MarkUsed \/ SaveIdentity \/ WriteIdentity \/ StoreDelete \/ Forget \/ Remember
  BY <1>2 DEF MarkUsed, SaveIdentity, WriteIdentity, StoreDelete, Forget, Remember
<1>3. CASE Post \/ Find \/ CopyDelete
  BY <1>3 DEF Post, Find, CopyDelete
<1> QED BY <1>1, <1>2, <1>3 DEF Next, WorkerStep, MainStep

\* What a store does to the bookkeeping of the two threads.
LEMMA StoresStep ==
  ASSUME stale \subseteq {"worker", "main"}, clobbered \in BOOLEAN, [Next]_vars
  PROVE  /\ stale' \subseteq {"worker", "main"} /\ clobbered' \in BOOLEAN
         /\ clobbered => clobbered'
<1>1. CASE UNCHANGED stores
  BY <1>1 DEF stores
<1>2. CASE Load \/ LoadCopy
  BY <1>2 DEF Load, LoadCopy
<1>3. CASE StoreWrite
  <2>1. clobbered' \in BOOLEAN /\ (clobbered => clobbered')
    BY <1>3, Zenon DEF StoreWrite, stores
  <2>2. stale' \subseteq {"worker", "main"}
    BY <1>3 DEF StoreWrite, stores
  <2> QED BY <2>1, <2>2
<1>4. CASE CopyWrite
  <2>1. clobbered' \in BOOLEAN /\ (clobbered => clobbered')
    <3>1. CASE UNCHANGED stores
      BY <3>1, Zenon DEF stores
    <3>2. CASE clobbered' = (clobbered \/ "main" \in stale)
      BY <3>2, Zenon
    <3>3. UNCHANGED stores \/ clobbered' = (clobbered \/ "main" \in stale)
      BY <1>4, Zenon DEF CopyWrite
    <3> QED BY <3>1, <3>2, <3>3
  <2>2. stale' \subseteq {"worker", "main"}
    BY <1>4 DEF CopyWrite, stores
  <2> QED BY <2>1, <2>2
<1> QED BY <1>1, <1>2, <1>3, <1>4, StoresFrame

-----------------------------------------------------------------------------
(* The types.                                                               *)

LEMMA NextServerType ==
  ASSUME TypeOK, Holding, [Next]_vars
  PROVE  ServerType'
<1> USE TypeParts DEF ServerType
<1>1. CASE UNCHANGED server
  BY <1>1 DEF server
<1>2. CASE Connect \/ Drop \/ Crash
  BY <1>2 DEF Connect, Drop, Crash
<1>3. CASE Read
  BY <1>3 DEF Read
<1>4. CASE Ack
  BY <1>4 DEF Ack, Holding
<1> QED BY <1>1, <1>2, <1>3, <1>4, ServerFrame

LEMMA NextDiskType ==
  ASSUME TypeOK, Holding, [Next]_vars
  PROVE  DiskType'
<1> USE TypeParts DEF DiskType
<1>1. session' \in [Peers -> Record \union {None}]
  <2>1. CASE UNCHANGED session
    BY <2>1
  <2>2. CASE StoreDelete \/ StoreWrite
    BY <2>2 DEF StoreDelete, StoreWrite, Holding
  <2>3. CASE CopyDelete \/ CopyWrite
    BY <2>3 DEF CopyDelete, CopyWrite, Holding
  <2> QED BY <2>1, <2>2, <2>3, DiskFrame
<1>2. identity' \in [Peers -> Keys \union {Empty, None}]
  <2>1. CASE UNCHANGED identity
    BY <2>1
  <2>2. CASE SaveIdentity
    BY <2>2 DEF SaveIdentity
  <2>3. CASE WriteIdentity
    <3>1. rec.key \in Keys
      BY <2>3 DEF WriteIdentity, Holding, Record
    <3> QED BY <2>3, <3>1 DEF WriteIdentity
  <2> QED BY <2>1, <2>2, <2>3, DiskFrame
<1>3. used' \subseteq Peers \X Keys
  <2>1. CASE UNCHANGED used
    BY <2>1
  <2>2. CASE MarkUsed
    <3>1. From(msg) \in Peers /\ Key(msg) \in Keys
      BY <2>2, MessageFact DEF MarkUsed, Holding
    <3>2. used' \subseteq used \union {<<From(msg), Key(msg)>>}
      BY <2>2 DEF MarkUsed
    <3>3. <<From(msg), Key(msg)>> \in Peers \X Keys
      BY <3>1
    <3> QED BY <3>2, <3>3
  <2> QED BY <2>1, <2>2, DiskFrame
<1>4. recipient' \in Peers \union {None}
  <2>1. CASE UNCHANGED recipient
    BY <2>1
  <2>2. CASE Forget
    BY <2>2 DEF Forget
  <2>3. CASE Remember
    BY <2>3, MessageFact DEF Remember, Holding
  <2> QED BY <2>1, <2>2, <2>3, DiskFrame
<1> QED BY <1>1, <1>2, <1>3, <1>4

\* The record that Load works on.
LEMMA LoadFact ==
  ASSUME TypeOK, Holding, Load, Decrypts(session[From(msg)])
  PROVE  /\ base' = session[From(msg)] /\ base' \in Record \union {None}
         /\ rec' \in Record /\ rec'.key = Key(msg)
         /\ rec'.sent = 0 \/ (base' # None /\ rec'.sent = base'.sent)
<1>1. msg \in Ids /\ From(msg) \in Peers /\ Key(msg) \in Keys
  BY MessageFact DEF Load, Holding
<1> DEFINE old == session[From(msg)]
           new == IF NewSession(old) THEN Fresh(Key(msg)) ELSE old
<1>2. base' = old /\ rec' = [new EXCEPT !.got = @ \union {msg}]
  BY DEF Load
<1>3. old \in Record \union {None}
  BY <1>1 DEF TypeOK
<1>4. /\ new \in Record /\ new.key = Key(msg)
      /\ new.sent = 0 \/ (old # None /\ new.sent = old.sent)
  BY <1>1, <1>3, BoundsAssumption DEF NewSession, Fresh, Record
<1> HIDE DEF new
<1>5. rec' \in Record /\ rec'.key = new.key /\ rec'.sent = new.sent
  BY <1>1, <1>2, <1>4 DEF Record
<1> QED BY <1>2, <1>3, <1>4, <1>5

LEMMA NextWorkerType ==
  ASSUME TypeOK, Holding, [Next]_vars
  PROVE  WorkerType'
<1> USE TypeParts DEF WorkerType, WorkerPcs
<1>1. CASE UNCHANGED worker
  BY <1>1 DEF worker
<1>2. CASE Crash \/ Connect
  BY <1>2 DEF Crash, Connect, worker
<1>3. CASE Read
  BY <1>3 DEF Read
<1>4. CASE Load
  <2>1. CASE Decrypts(session[From(msg)])
    BY <1>4, <2>1, LoadFact DEF Load
  <2>2. CASE ~Decrypts(session[From(msg)])
    BY <1>4, <2>2 DEF Load, DispatchEnds
  <2> QED BY <2>1, <2>2
<1>5. CASE MarkUsed
  BY <1>5 DEF MarkUsed, Stored, DispatchEnds
<1>6. CASE SaveIdentity \/ WriteIdentity
  BY <1>6 DEF SaveIdentity, WriteIdentity, Stored, DispatchEnds
<1>7. CASE StoreDelete \/ StoreWrite
  BY <1>7 DEF StoreDelete, StoreWrite, Stored, DispatchEnds
<1>8. CASE Show
  BY <1>8 DEF Show, DispatchEnds
<1>9. CASE Forget \/ Remember
  BY <1>9 DEF Forget, Remember, DispatchEnds
<1>10. CASE Ack
  BY <1>10 DEF Ack
<1> QED BY <1>1, <1>2, <1>3, <1>4, <1>5, <1>6, <1>7, <1>8, <1>9, <1>10, WorkerFrame DEF WorkerStep

\* The record that LoadCopy works on.
LEMMA CopyFact ==
  ASSUME TypeOK, Counts, Holding, LoadCopy, session[to] # None, Trusts(to, session[to].key)
  PROVE  copy' \in Record /\ copy'.sent <= posts
<1>1. session[to] \in Record /\ session[to].sent <= posts - 1
  BY DEF LoadCopy, Holding, TypeOK, Counts, Saved
<1>2. copy' = [session[to] EXCEPT !.sent = @ + 1]
  BY DEF LoadCopy
<1> DEFINE old == session[to]
<1> HIDE DEF old
<1>3. old.sent + 1 \in 0..MaxPosts
  BY <1>1, BoundsAssumption DEF TypeOK, Record, old
<1>4. old \in Record /\ old.sent <= posts - 1 /\ copy' = [old EXCEPT !.sent = @ + 1]
  BY <1>1, <1>2 DEF old
<1>5. copy' \in Record /\ copy'.sent = old.sent + 1
  BY <1>3, <1>4 DEF Record
<1> QED BY <1>4, <1>5 DEF TypeOK, Record

LEMMA NextMainType ==
  ASSUME TypeOK, Counts, Holding, [Next]_vars
  PROVE  MainType'
<1> USE TypeParts, BoundsAssumption DEF MainType
<1>1. posts' \in 0..MaxPosts
  BY MainFrame DEF Post
<1>2. CASE UNCHANGED main
  BY <1>1, <1>2 DEF main
<1>3. CASE Crash
  BY <1>1, <1>3 DEF Crash
<1>4. CASE Post
  BY <1>1, <1>4 DEF Post
<1>5. CASE Find
  BY <1>1, <1>5 DEF Find, PostEnds, DiskType
<1>6. CASE LoadCopy
  <2>1. CASE session[to] = None \/ ~Trusts(to, session[to].key)
    BY <1>1, <1>6, <2>1 DEF LoadCopy, PostEnds
  <2>2. CASE session[to] # None /\ Trusts(to, session[to].key)
    BY <1>1, <1>6, <2>2, CopyFact DEF LoadCopy
  <2> QED BY <2>1, <2>2
<1>7. CASE CopyDelete \/ CopyWrite
  BY <1>1, <1>7 DEF CopyDelete, CopyWrite, PostEnds
<1> QED BY <1>2, <1>3, <1>4, <1>5, <1>6, <1>7, MainFrame DEF MainStep

LEMMA NextHistoryType ==
  ASSUME TypeOK, Counts, Holding, [Next]_vars
  PROVE  HistoryType'
<1> USE TypeParts, BoundsAssumption DEF HistoryType
<1>1. shown' \in [Ids -> Nat]
  <2>1. CASE Show
    BY <2>1 DEF Show
  <2> QED BY <2>1, ShownFrame
<1>2. handled' \subseteq Ids
  BY HandledFrame DEF Holding
<1>3. encrypted' \in [Peers -> 0..MaxPosts]
  <2>1. CASE CopyWrite
    <3>1. to \in Peers /\ encrypted[to] + 1 \in 0..MaxPosts
      BY <2>1 DEF CopyWrite, Holding, Counts, Counted, MainType
    <3> QED BY <2>1, <3>1 DEF CopyWrite
  <2> QED BY <2>1, MainFrame
<1>4. stale' \subseteq {"worker", "main"} /\ clobbered' \in BOOLEAN
  BY StoresStep
<1> QED BY <1>1, <1>2, <1>3, <1>4

LEMMA NextBoundsType ==
  ASSUME TypeOK, [Next]_vars
  PROVE  BoundsType'
<1> USE BoundsAssumption, TypeParts DEF BoundsType, Fails
<1>1. CASE UNCHANGED bounds
  BY <1>1 DEF bounds
<1>2. CASE Drop \/ Crash
  BY <1>2 DEF Drop, Crash
<1>3. CASE MarkUsed \/ SaveIdentity \/ WriteIdentity \/ StoreWrite \/ Remember \/ Ack \/ CopyWrite
  BY <1>3 DEF MarkUsed, SaveIdentity, WriteIdentity, StoreWrite, Remember, Ack, CopyWrite
<1>4. CASE Connect \/ Read \/ Load \/ StoreDelete \/ Show \/ Forget \/ Post \/ Find
           \/ LoadCopy \/ CopyDelete \/ UNCHANGED vars
  BY <1>1, <1>4 DEF Connect, Read, Load, StoreDelete, Show, Forget, Post, Find, LoadCopy,
                    CopyDelete, vars, bounds
<1> QED BY <1>2, <1>3, <1>4 DEF Next, WorkerStep, MainStep

LEMMA NextType ==
  ASSUME TypeOK, Counts, Holding, [Next]_vars
  PROVE  TypeOK'
<1>1. /\ ServerType' /\ DiskType' /\ WorkerType'
      /\ MainType' /\ HistoryType' /\ BoundsType'
  BY NextServerType, NextDiskType, NextWorkerType, NextMainType, NextHistoryType, NextBoundsType
<1> QED BY <1>1 DEF TypeOK, ServerType, DiskType, WorkerType, MainType, HistoryType, BoundsType

-----------------------------------------------------------------------------
(* What each thread holds.                                                  *)

LEMMA NextHolding ==
  ASSUME TypeOK, Counts, Holding, [Next]_vars
  PROVE  Holding'
<1>1. wpc' # "read" => msg' \in Ids
  <2> USE DEF Holding
  <2>1. CASE UNCHANGED worker \/ Crash \/ Connect \/ Read \/ Ack
    BY <2>1 DEF worker, Crash, Connect, Read, Ack
  <2>2. CASE Load \/ Show \/ Forget \/ Remember
    BY <2>2 DEF Load, Show, Forget, Remember, DispatchEnds
  <2>3. CASE MarkUsed \/ SaveIdentity \/ WriteIdentity \/ StoreDelete \/ StoreWrite
    BY <2>3 DEF MarkUsed, SaveIdentity, WriteIdentity, StoreDelete, StoreWrite
  <2> QED BY <2>1, <2>2, <2>3, WorkerFrame DEF WorkerStep
<1>2. wpc' \in {"store", "write", "name"} => rec' \in Record /\ rec'.key = Key(msg')
  <2> USE DEF Holding
  <2>1. CASE UNCHANGED worker \/ Crash \/ Connect \/ Read \/ Ack
    BY <2>1 DEF worker, Crash, Connect, Read, Ack
  <2>2. CASE Load
    <3>1. CASE Decrypts(session[From(msg)])
      BY <2>2, <3>1, LoadFact DEF Load
    <3>2. CASE ~Decrypts(session[From(msg)])
      BY <2>2, <3>2 DEF Load, DispatchEnds
    <3> QED BY <3>1, <3>2
  <2>3. CASE Show \/ Forget \/ Remember
    BY <2>3 DEF Show, Forget, Remember, DispatchEnds
  <2>4. CASE MarkUsed \/ SaveIdentity \/ WriteIdentity \/ StoreDelete \/ StoreWrite
    BY <2>4 DEF MarkUsed, SaveIdentity, WriteIdentity, StoreDelete, StoreWrite, Stored, DispatchEnds
  <2> QED BY <2>1, <2>2, <2>3, <2>4, WorkerFrame DEF WorkerStep
<1>3. /\ mpc' \in {"load", "delete", "write"} => to' \in Peers
      /\ mpc' \in {"delete", "write"} => copy' \in Record
  <2> USE DEF Holding
  <2>1. CASE UNCHANGED main \/ Crash \/ Post
    BY <2>1 DEF main, Crash, Post
  <2>2. CASE Find
    BY <2>2 DEF Find, PostEnds, TypeOK
  <2>3. CASE LoadCopy
    <3>1. CASE session[to] = None \/ ~Trusts(to, session[to].key)
      BY <2>3, <3>1 DEF LoadCopy, PostEnds
    <3>2. CASE session[to] # None /\ Trusts(to, session[to].key)
      BY <2>3, <3>2, CopyFact DEF LoadCopy
    <3> QED BY <3>1, <3>2
  <2>4. CASE CopyDelete \/ CopyWrite
    BY <2>4 DEF CopyDelete, CopyWrite, PostEnds
  <2> QED BY <2>1, <2>2, <2>3, <2>4, MainFrame DEF MainStep
<1> QED BY <1>1, <1>2, <1>3 DEF Holding

\* A post moves through both counts, and nothing else moves them back.
LEMMA CountFact ==
  ASSUME TypeOK, Counts, Holding, [Next]_vars
  PROVE  /\ Saved' >= Saved /\ Counted' >= Counted
         /\ CopyDelete \/ CopyWrite => Saved = posts /\ Saved' = posts
         /\ CopyWrite => Counted = posts - 1 /\ Counted' = posts
<1> USE DEF Saved, Counted, TypeOK
<1>1. CASE UNCHANGED main /\ UNCHANGED posts
  BY <1>1 DEF main, CopyDelete, CopyWrite, PostEnds
<1>2. CASE Crash
  BY <1>2 DEF Crash, CopyDelete, CopyWrite
<1>3. CASE Post
  BY <1>3 DEF Post, CopyDelete, CopyWrite
<1>4. CASE Find \/ LoadCopy
  BY <1>4 DEF Find, LoadCopy, PostEnds, CopyDelete, CopyWrite
<1>5. CASE CopyDelete
  BY <1>5 DEF CopyDelete, CopyWrite
<1>6. CASE CopyWrite
  BY <1>6 DEF CopyDelete, CopyWrite, PostEnds
<1> QED BY <1>1, <1>2, <1>3, <1>4, <1>5, <1>6, MainFrame DEF MainStep

LEMMA NextCounts ==
  ASSUME TypeOK, Counts, Holding, [Next]_vars
  PROVE  Counts'
<1>2. Saved \in Int /\ Saved' \in Int /\ Counted \in Int /\ Counted' \in Int
  <2>1. TypeOK'
    BY NextType
  <2> QED BY <2>1 DEF TypeOK, Saved, Counted
<1>1. Saved' >= 0 /\ Counted' >= 0 /\ Saved' >= Saved /\ Counted' >= Counted
  BY <1>2, CountFact DEF Counts
<1>3. \A r \in Record : r.sent \in Nat
  BY BoundsAssumption DEF Record
<1>4. ASSUME NEW p \in Peers, session'[p] # None
      PROVE  session'[p].sent <= Saved'
  <2>1. CASE session'[p] = session[p]
    BY <1>1, <1>2, <1>3, <1>4, <2>1 DEF Counts, TypeOK
  <2>2. CASE session'[p] # session[p]
    <3>1. CASE StoreDelete \/ CopyDelete
      BY <1>4, <2>2, <3>1, MessageFact DEF StoreDelete, CopyDelete, Holding, TypeOK
    <3>2. CASE StoreWrite
      <4>1. session'[p] = rec /\ rec \in Record
        BY <1>4, <2>2, <3>2, MessageFact DEF StoreWrite, Holding, TypeOK
      <4> QED BY <1>1, <1>2, <1>3, <1>4, <4>1 DEF Counts
    <3>3. CASE CopyWrite
      <4>1. session'[p] = copy /\ copy \in Record
        BY <1>4, <2>2, <3>3 DEF CopyWrite, Holding, TypeOK
      <4> QED BY <1>4, <3>3, <4>1, CountFact DEF Counts
    <3> QED BY <2>2, <3>1, <3>2, <3>3, DiskFrame
  <2> QED BY <2>1, <2>2
<1>5. /\ base' # None => base'.sent <= Saved'
      /\ rec' # None => rec'.sent <= Saved'
  <2>1. CASE UNCHANGED <<base, rec>> \/ (base' = None /\ rec' = None)
    BY <1>1, <1>2, <1>3, <2>1 DEF Counts, TypeOK
  <2>2. CASE Load /\ Decrypts(session[From(msg)])
    <3>1. /\ base' = session[From(msg)] /\ base' \in Record \union {None} /\ rec' \in Record
          /\ rec'.sent = 0 \/ (base' # None /\ rec'.sent = base'.sent)
      BY <2>2, LoadFact
    <3>2. base' # None => base'.sent <= Saved
      BY <2>2, <3>1, MessageFact DEF Load, Holding, Counts
    <3> QED BY <1>1, <1>2, <1>3, <3>1, <3>2
  <2>3. UNCHANGED <<base, rec>> \/ (base' = None /\ rec' = None) \/ (Load /\ Decrypts(session[From(msg)]))
    <3>1. CASE UNCHANGED worker \/ Crash \/ Connect \/ Read \/ Ack
      BY <3>1 DEF worker, Crash, Connect, Read, Ack
    <3>2. CASE Load
      BY <3>2 DEF Load, DispatchEnds
    <3>3. CASE Show \/ Forget \/ Remember
      BY <3>3 DEF Show, Forget, Remember, DispatchEnds
    <3>4. CASE MarkUsed \/ SaveIdentity \/ WriteIdentity \/ StoreDelete \/ StoreWrite
      BY <3>4 DEF MarkUsed, SaveIdentity, WriteIdentity, StoreDelete, StoreWrite, Stored, DispatchEnds
    <3> QED BY <3>1, <3>2, <3>3, <3>4, WorkerFrame DEF WorkerStep
  <2> QED BY <2>1, <2>2, <2>3
<1>6. copy' # None => copy'.sent <= posts'
  <2>1. CASE UNCHANGED copy \/ copy' = None
    BY <1>3, <2>1, MainFrame DEF Counts, TypeOK, Post
  <2>2. CASE LoadCopy /\ session[to] # None /\ Trusts(to, session[to].key)
    BY <2>2, CopyFact DEF LoadCopy
  <2>3. UNCHANGED copy \/ copy' = None \/ (LoadCopy /\ session[to] # None /\ Trusts(to, session[to].key))
    BY MainFrame DEF MainStep, main, Crash, Post, Find, LoadCopy, CopyDelete, CopyWrite, PostEnds
  <2> QED BY <2>1, <2>2, <2>3
<1>7. ASSUME NEW p \in Peers
      PROVE  encrypted'[p] <= Counted'
  <2>1. CASE UNCHANGED encrypted
    BY <1>1, <1>2, <2>1 DEF Counts, TypeOK
  <2>2. CASE CopyWrite
    <3>1. encrypted'[p] \in {encrypted[p], encrypted[p] + 1} /\ encrypted[p] \in Nat
      BY <2>2 DEF CopyWrite, Holding, TypeOK
    <3> QED BY <1>2, <2>2, <3>1, CountFact DEF Counts, TypeOK
  <2> QED BY <2>1, <2>2, MainFrame
<1> QED BY <1>1, <1>4, <1>5, <1>6, <1>7 DEF Counts

-----------------------------------------------------------------------------
(* The pinned identity.                                                     *)

LEMMA NextPinning ==
  ASSUME TypeOK, Holding, Pinning, [Next]_vars
  PROVE  Pinning'
<1> USE DEF Pinning
<1>1. CASE UNCHANGED worker
  <2>1. UNCHANGED identity
    BY <1>1, DiskFrame DEF worker, SaveIdentity, WriteIdentity, Stored, DispatchEnds, Holding, TypeOK
  <2> QED BY <1>1, <2>1 DEF worker
<1>2. CASE Crash \/ Connect \/ Read \/ Ack
  BY <1>2 DEF Crash, Connect, Read, Ack, worker
<1>3. CASE Load
  <2>1. CASE Decrypts(session[From(msg)])
    BY <1>3, <2>1 DEF Load, Decrypts, Trusts, disk
  <2>2. CASE ~Decrypts(session[From(msg)])
    BY <1>3, <2>2 DEF Load, DispatchEnds
  <2> QED BY <2>1, <2>2
<1>4. CASE MarkUsed
  BY <1>4 DEF MarkUsed, Stored, DispatchEnds
<1>5. CASE SaveIdentity
  <2>1. From(msg) \in Peers /\ rec.key = Key(msg)
    BY <1>5, MessageFact DEF SaveIdentity, Holding
  <2> QED BY <1>5, <2>1 DEF SaveIdentity, Stored, DispatchEnds, TypeOK
<1>6. CASE WriteIdentity
  <2>1. From(msg) \in Peers /\ rec.key = Key(msg)
    BY <1>6, MessageFact DEF WriteIdentity, Holding
  <2> QED BY <1>6, <2>1 DEF WriteIdentity, Stored, DispatchEnds, TypeOK
<1>7. CASE StoreDelete
  BY <1>7 DEF StoreDelete
<1>8. CASE StoreWrite
  BY <1>8 DEF StoreWrite, Stored, DispatchEnds
<1>9. CASE Show \/ Forget \/ Remember
  BY <1>9 DEF Show, Forget, Remember, DispatchEnds, disk
<1> QED BY <1>1, <1>2, <1>3, <1>4, <1>5, <1>6, <1>7, <1>8, <1>9, WorkerFrame DEF WorkerStep

LEMMA NextShownFromPinned ==
  ASSUME TypeOK, Holding, Pinning, ShownFromPinned, [Next]_vars
  PROVE  ShownFromPinned'
<1> SUFFICES ASSUME NEW m \in Ids, shown'[m] > 0
             PROVE  identity'[From(m)] = Key(m)
  BY DEF ShownFromPinned, Ids
<1>1. From(m) \in Peers /\ Key(m) \in Keys
  BY MessageFact
<1>2. CASE Show
  <2>1. UNCHANGED identity
    BY <1>2 DEF Show, disk
  <2>2. shown[m] > 0 \/ m = msg
    BY <1>2 DEF Show, TypeOK
  <2> QED BY <1>2, <2>1, <2>2 DEF Show, Pinning, ShownFromPinned
<1>3. CASE UNCHANGED shown
  <2>1. identity[From(m)] = Key(m)
    BY <1>3 DEF ShownFromPinned
  <2>2. CASE UNCHANGED identity
    BY <2>1, <2>2
  <2>3. CASE SaveIdentity
    <3>1. /\ msg \in Ids /\ From(msg) \in Peers /\ rec.key = Key(msg)
          /\ identity[From(msg)] \in {Key(msg), None}
      BY <2>3, MessageFact DEF SaveIdentity, Holding, Pinning
    <3>2. From(m) = From(msg) => identity[From(msg)] = rec.key
      BY <1>1, <2>1, <3>1, NamesAssumption
    <3> QED BY <1>1, <2>1, <2>3, <3>1, <3>2 DEF SaveIdentity, TypeOK
  <2>4. CASE WriteIdentity
    <3>1. From(msg) \in Peers /\ identity[From(msg)] = Empty
      BY <2>4, MessageFact DEF WriteIdentity, Holding, Pinning
    <3>2. From(m) # From(msg)
      BY <1>1, <2>1, <3>1, NamesAssumption
    <3> QED BY <1>1, <2>1, <2>4, <3>1, <3>2 DEF WriteIdentity, TypeOK
  <2> QED BY <2>2, <2>3, <2>4, DiskFrame
<1> QED BY <1>2, <1>3, ShownFrame

-----------------------------------------------------------------------------
(* The recipient and the acknowledgements.                                  *)

LEMMA ShownTextsGrow ==
  ASSUME TypeOK, Holding, [Next]_vars
  PROVE  ShownTexts \subseteq ShownTexts'
<1> SUFFICES ASSUME NEW m \in ShownTexts PROVE shown'[m] > 0
  BY DEF ShownTexts, Ids
<1>1. CASE UNCHANGED shown
  BY <1>1 DEF ShownTexts
<1>2. CASE Show
  BY <1>2 DEF Show, ShownTexts, TypeOK
<1> QED BY <1>1, <1>2, ShownFrame

LEMMA NextRemembering ==
  ASSUME TypeOK, Holding, Remembering, [Next]_vars
  PROVE  Remembering'
<1> USE ShownTextsGrow DEF Remembering
<1>1. CASE UNCHANGED worker \/ Forget
  BY <1>1 DEF worker, Forget
<1>2. CASE Show
  <2>1. CASE Content[msg] = "text"
    <3>1. msg \in Ids /\ Messages[msg].content = "text"
      BY <1>2, <2>1 DEF Show, Holding, Content
    <3>2. msg' = msg /\ shown'[msg] > 0
      BY <1>2, <2>1, <3>1 DEF Show, TypeOK
    <3> QED BY <3>1, <3>2 DEF ShownTexts, Ids
  <2>2. CASE Content[msg] # "text"
    BY <1>2, <2>2 DEF Show, DispatchEnds
  <2> QED BY <2>1, <2>2
<1>3. CASE Crash \/ Connect \/ Read \/ Ack
  BY <1>3 DEF Crash, Connect, Read, Ack, worker
<1>4. CASE Load \/ Remember
  BY <1>4 DEF Load, Remember, DispatchEnds
<1>5. CASE MarkUsed \/ SaveIdentity \/ WriteIdentity \/ StoreDelete \/ StoreWrite
  BY <1>5 DEF MarkUsed, SaveIdentity, WriteIdentity, StoreDelete, StoreWrite, Stored, DispatchEnds
<1> QED BY <1>1, <1>2, <1>3, <1>4, <1>5, WorkerFrame DEF WorkerStep

LEMMA NextRecipientWasShown ==
  ASSUME TypeOK, Holding, Remembering, RecipientWasShown, [Next]_vars
  PROVE  RecipientWasShown'
<1>1. recipient' \in {recipient, None} \/ (wpc = "remember" /\ recipient' = From(msg))
  BY DiskFrame DEF Forget, Remember
<1>2. to' \in {to, recipient, None}
  BY MainFrame DEF MainStep, main, Crash, Post, Find, LoadCopy, CopyDelete, CopyWrite, PostEnds
<1>3. ASSUME NEW p \in {recipient', to'}, p # None
      PROVE  \E m \in ShownTexts' : From(m) = p
  <2>1. \E m \in ShownTexts : From(m) = p
    BY <1>1, <1>2, <1>3 DEF RecipientWasShown, Remembering
  <2> QED BY <2>1, ShownTextsGrow
<1> QED BY <1>3 DEF RecipientWasShown, From

LEMMA NextAcking ==
  ASSUME TypeOK, Holding, Acking, AckedWasHandled, [Next]_vars
  PROVE  Acking' /\ AckedWasHandled'
<1>1. handled \subseteq handled'
  BY HandledFrame
<1>2. acked' \subseteq handled
  BY ServerFrame DEF server, Connect, Drop, Crash, Read, Ack, Acking, AckedWasHandled
<1>3. Acking'
  <2> USE <1>1 DEF Acking
  <2>1. CASE UNCHANGED worker \/ Crash \/ Connect \/ Read \/ Ack
    BY <2>1 DEF worker, Crash, Connect, Read, Ack
  <2>2. CASE Load
    BY <2>2 DEF Load, DispatchEnds
  <2>3. CASE Show \/ Forget \/ Remember
    BY <2>3 DEF Show, Forget, Remember, DispatchEnds
  <2>4. CASE MarkUsed \/ SaveIdentity \/ WriteIdentity \/ StoreDelete \/ StoreWrite
    BY <2>4 DEF MarkUsed, SaveIdentity, WriteIdentity, StoreDelete, StoreWrite, Stored, DispatchEnds
  <2> QED BY <2>1, <2>2, <2>3, <2>4, WorkerFrame DEF WorkerStep
<1> QED BY <1>1, <1>2, <1>3 DEF AckedWasHandled

-----------------------------------------------------------------------------
(* The records, by their next values.                                       *)

Storing == {"store", "name", "write"}
Posting == {"delete", "write"}

\* A message that was shown, or whose record is stored and that is shown next.
Known(m) == shown[m] > 0 \/ (m = msg /\ wpc = "show")

\* The session is the last store of a message.
LastStore ==
  /\ wpc \in {"store", "name"} => "session" \in pending
  /\ wpc = "write" => pending = {"session"}

LEMMA NextLastStore ==
  ASSUME LastStore, [Next]_vars
  PROVE  LastStore'
<1> USE DEF LastStore
<1>1. CASE UNCHANGED worker \/ Crash \/ Connect \/ Read \/ Ack
  BY <1>1 DEF worker, Crash, Connect, Read, Ack
<1>2. CASE Load
  BY <1>2 DEF Load, DispatchEnds
<1>3. CASE Show \/ Forget \/ Remember
  BY <1>3 DEF Show, Forget, Remember, DispatchEnds
<1>4. CASE MarkUsed
  BY <1>4 DEF MarkUsed, Stored, DispatchEnds
<1>5. CASE SaveIdentity \/ WriteIdentity
  BY <1>5 DEF SaveIdentity, WriteIdentity, Stored, DispatchEnds
<1>6. CASE StoreDelete \/ StoreWrite
  BY <1>6 DEF StoreDelete, StoreWrite, Stored, DispatchEnds
<1> QED BY <1>1, <1>2, <1>3, <1>4, <1>5, <1>6, WorkerFrame DEF WorkerStep

\* A session record is kept, deleted, or replaced by what a thread holds.
LEMMA SessionStep ==
  ASSUME TypeOK, Holding, [Next]_vars, NEW p \in Peers
  PROVE  \/ session'[p] = session[p]
         \/ session'[p] = None /\ StoreDelete /\ p = From(msg)
         \/ session'[p] = None /\ CopyDelete /\ p = to
         \/ session'[p] = rec /\ StoreWrite /\ p = From(msg)
         \/ session'[p] = copy /\ CopyWrite /\ p = to
<1> USE DEF TypeOK
<1>1. CASE UNCHANGED session
  BY <1>1
<1>2. CASE StoreDelete
  BY <1>2 DEF StoreDelete
<1>3. CASE StoreWrite
  BY <1>3 DEF StoreWrite
<1>4. CASE CopyDelete
  BY <1>4 DEF CopyDelete
<1>5. CASE CopyWrite
  BY <1>5 DEF CopyWrite
<1> QED BY <1>1, <1>2, <1>3, <1>4, <1>5, DiskFrame

\* The worker holds a record from Load to the last store.
LEMMA RecStep ==
  ASSUME LastStore, [Next]_vars, wpc' \in Storing
  PROVE  \/ wpc \in Storing /\ UNCHANGED <<msg, rec>> /\ ~StoreWrite
         \/ Load /\ Decrypts(session[From(msg)]) /\ UNCHANGED msg
<1> USE DEF Storing
<1>1. CASE UNCHANGED worker \/ Crash \/ Connect \/ Read \/ Ack
  BY <1>1 DEF worker, Crash, Connect, Read, Ack, StoreWrite, Stored, DispatchEnds
<1>2. CASE Load
  BY <1>2 DEF Load, DispatchEnds
<1>3. CASE Show \/ Forget \/ Remember
  BY <1>3 DEF Show, Forget, Remember, DispatchEnds
<1>4. CASE MarkUsed
  BY <1>4 DEF MarkUsed, Stored, DispatchEnds, StoreWrite
<1>5. CASE SaveIdentity \/ WriteIdentity
  BY <1>5 DEF SaveIdentity, WriteIdentity, Stored, DispatchEnds, StoreWrite
<1>6. CASE StoreDelete
  BY <1>6 DEF StoreDelete, StoreWrite
<1>7. CASE StoreWrite
  BY <1>7 DEF StoreWrite, Stored, DispatchEnds, LastStore
<1> QED BY <1>1, <1>2, <1>3, <1>4, <1>5, <1>6, <1>7, WorkerFrame DEF WorkerStep

\* The main thread holds one from LoadCopy to its store.
LEMMA CopyStep ==
  ASSUME TypeOK, Holding, [Next]_vars, mpc' \in Posting
  PROVE  \/ mpc \in Posting /\ UNCHANGED <<to, copy>> /\ ~CopyWrite
         \/ /\ LoadCopy /\ UNCHANGED to /\ session[to] # None
            /\ copy'.key = session[to].key /\ copy'.got = session[to].got
            /\ copy'.sent = session[to].sent + 1
<1> USE DEF Posting
<1>1. CASE UNCHANGED main \/ Crash \/ Post
  BY <1>1 DEF main, Crash, Post, CopyWrite, PostEnds
<1>2. CASE Find \/ CopyDelete \/ CopyWrite
  BY <1>2 DEF Find, CopyDelete, CopyWrite, PostEnds
<1>3. CASE LoadCopy
  <2> DEFINE old == session[to]
  <2>1. /\ old # None /\ old \in Record /\ to' = to
        /\ copy' = [old EXCEPT !.sent = @ + 1]
    BY <1>3 DEF LoadCopy, PostEnds, TypeOK, Holding
  <2> HIDE DEF old
  <2>2. copy'.key = old.key /\ copy'.got = old.got /\ copy'.sent = old.sent + 1
    BY <2>1 DEF Record
  <2> QED BY <1>3, <2>1, <2>2 DEF old
<1> QED BY <1>1, <1>2, <1>3, MainFrame DEF MainStep

\* What Load makes of the record it finds.
LEMMA LoadGot ==
  ASSUME TypeOK, Holding, Load, Decrypts(session[From(msg)])
  PROVE  LET old == session[From(msg)]
         IN  /\ msg \in rec'.got
             /\ NewSession(old) =>
                  /\ rec'.got = {msg} /\ rec'.sent = 0
                  /\ <<From(msg), Key(msg)>> \notin used /\ pending' = {"identity", "session", "used"}
             /\ ~NewSession(old) =>
                  /\ old # None /\ old.key = Key(msg) /\ msg \notin old.got
                  /\ rec'.got = old.got \union {msg} /\ rec'.sent = old.sent
<1>1. msg \in Ids /\ From(msg) \in Peers /\ Key(msg) \in Keys
  BY MessageFact DEF Load, Holding
<1> DEFINE old == session[From(msg)]
           new == IF NewSession(old) THEN Fresh(Key(msg)) ELSE old
<1>2. /\ rec' = [new EXCEPT !.got = @ \union {msg}]
      /\ pending' = {"identity", "session"} \union (IF NewSession(old) THEN {"used"} ELSE {})
  BY DEF Load
<1>3. old \in Record \union {None}
  BY <1>1 DEF TypeOK
<1>4. /\ new \in Record
      /\ NewSession(old) => new.got = {} /\ new.sent = 0
      /\ ~NewSession(old) => new = old /\ old # None /\ old.key = Key(msg)
  BY <1>1, <1>3, BoundsAssumption DEF NewSession, Fresh, Record
<1>5. NewSession(old) => <<From(msg), Key(msg)>> \notin used
  BY DEF Decrypts
<1>6. ~NewSession(old) => msg \notin old.got
  BY DEF Decrypts
<1> HIDE DEF new, old
<1>7. rec'.got = new.got \union {msg} /\ rec'.sent = new.sent
  BY <1>1, <1>2, <1>4 DEF Record
<1> QED BY <1>2, <1>4, <1>5, <1>6, <1>7 DEF old

\* A message becomes known by the store of its record.
LEMMA KnownStep ==
  ASSUME TypeOK, Holding, LastStore, [Next]_vars, NEW m \in Ids, Known(m)'
  PROVE  \/ Known(m)
         \/ m = msg /\ StoreWrite /\ wpc' = "show" /\ msg' = msg /\ session' = [session EXCEPT ![From(msg)] = rec]
<1> USE DEF Known
<1>1. CASE UNCHANGED worker \/ Crash \/ Connect \/ Read \/ Ack
  <2>1. UNCHANGED shown
    BY <1>1, ShownFrame DEF worker, Crash, Connect, Read, Ack, Show, DispatchEnds, history
  <2> QED BY <1>1, <2>1 DEF worker, Crash, Connect, Read, Ack
<1>2. CASE Show
  BY <1>2 DEF Show, DispatchEnds, TypeOK
<1>3. CASE Load \/ Forget \/ Remember
  BY <1>3 DEF Load, Forget, Remember, DispatchEnds, history
<1>4. CASE MarkUsed \/ SaveIdentity \/ WriteIdentity
  BY <1>4 DEF MarkUsed, SaveIdentity, WriteIdentity, Stored, DispatchEnds, LastStore
<1>5. CASE StoreDelete \/ StoreWrite
  BY <1>5 DEF StoreDelete, StoreWrite, Stored, DispatchEnds, history
<1> QED BY <1>1, <1>2, <1>3, <1>4, <1>5, WorkerFrame DEF WorkerStep

-----------------------------------------------------------------------------
(* A message is shown once.                                                 *)

\* A session record is only ever stored with the identity of its peer on
\* disk and the marker of the prekey that opened it.
Opened(p, k) == identity[p] = k /\ <<p, k>> \in used

Opening ==
  /\ \A p \in Peers : session[p] # None => Opened(p, session[p].key)
  /\ mpc \in Posting => Opened(to, copy.key)
  /\ wpc \in Storing /\ "used" \notin pending => <<From(msg), Key(msg)>> \in used
  /\ \A m \in Ids : Known(m) => <<From(m), Key(m)>> \in used

LEMMA OpenedKept ==
  ASSUME TypeOK, Holding, Pinning, [Next]_vars, NEW p \in Peers, NEW k \in Keys, Opened(p, k)
  PROVE  Opened(p, k)'
<1>1. used \subseteq used'
  BY DiskFrame DEF MarkUsed
<1>2. identity'[p] = k
  <2>1. identity[p] = k
    BY DEF Opened
  <2>2. CASE UNCHANGED identity
    BY <2>1, <2>2
  <2>3. CASE SaveIdentity
    <3>1. rec.key = Key(msg) /\ identity[From(msg)] \in {Key(msg), None}
      BY <2>3 DEF SaveIdentity, Holding, Pinning
    <3>2. p = From(msg) => identity[From(msg)] = rec.key
      BY <2>1, <3>1, NamesAssumption
    <3> QED BY <2>1, <2>3, <3>2 DEF SaveIdentity, TypeOK
  <2>4. CASE WriteIdentity
    <3>1. p # From(msg)
      BY <2>1, <2>4, NamesAssumption DEF WriteIdentity, Pinning
    <3> QED BY <2>1, <2>4, <3>1 DEF WriteIdentity, TypeOK
  <2> QED BY <2>2, <2>3, <2>4, DiskFrame
<1> QED BY <1>1, <1>2 DEF Opened

\* What the worker stores is opened by the time it is stored.
LEMMA RecOpened ==
  ASSUME Holding, Pinning, LastStore, Opening, wpc = "write"
  PROVE  Opened(From(msg), rec.key)
  BY DEF Holding, Pinning, LastStore, Opening, Storing, Opened

LEMMA NextOpening ==
  ASSUME TypeOK, Holding, Pinning, LastStore, Opening, [Next]_vars
  PROVE  Opening'
<1>0. used \subseteq used'
  BY DiskFrame DEF MarkUsed
<1>1. ASSUME NEW p \in Peers, session'[p] # None
      PROVE  Opened(p, session[p].key)'
  <2>1. CASE session'[p] = session[p]
    <3> DEFINE k == session[p].key
    <3>1. k \in Keys /\ Opened(p, k)
      BY <1>1, <2>1 DEF Opening, TypeOK, Record
    <3>2. session'[p].key = k
      BY <2>1
    <3> HIDE DEF k
    <3>3. identity'[p] = k /\ <<p, k>> \in used'
      BY <3>1, OpenedKept DEF Opened
    <3> QED BY <3>2, <3>3 DEF Opened
  <2>2. CASE session'[p] = rec /\ StoreWrite /\ p = From(msg)
    <3>1. Opened(p, rec.key)
      BY <2>2, RecOpened DEF StoreWrite
    <3>2. UNCHANGED <<identity, used>>
      BY <2>2 DEF StoreWrite
    <3> QED BY <2>2, <3>1, <3>2 DEF Opened
  <2>3. CASE session'[p] = copy /\ CopyWrite /\ p = to
    <3>1. Opened(p, copy.key)
      BY <2>3 DEF CopyWrite, Opening, Posting
    <3>2. UNCHANGED <<identity, used>>
      BY <2>3 DEF CopyWrite
    <3> QED BY <2>3, <3>1, <3>2 DEF Opened
  <2> QED BY <1>1, <2>1, <2>2, <2>3, SessionStep
<1>2. ASSUME mpc' \in Posting
      PROVE  Opened(to, copy.key)'
  <2>1. CASE mpc \in Posting /\ UNCHANGED <<to, copy>>
    <3>1. to \in Peers /\ copy.key \in Keys /\ Opened(to, copy.key)
      BY <2>1 DEF Opening, Posting, Holding, Record
    <3> DEFINE q == to
               k == copy.key
    <3>2. q \in Peers /\ k \in Keys /\ Opened(q, k)
      BY <3>1
    <3>3. to' = q /\ copy'.key = k
      BY <2>1
    <3> HIDE DEF q, k
    <3>4. identity'[q] = k /\ <<q, k>> \in used'
      BY <3>2, OpenedKept DEF Opened
    <3> QED BY <3>3, <3>4 DEF Opened
  <2>2. CASE LoadCopy /\ UNCHANGED to /\ session[to] # None /\ copy'.key = session[to].key
    <3>1. Opened(to, session[to].key)
      BY <2>2 DEF LoadCopy, Holding, Opening
    <3>2. UNCHANGED <<identity, used>>
      BY <2>2 DEF LoadCopy, disk
    <3> QED BY <2>2, <3>1, <3>2 DEF Opened
  <2> QED BY <1>2, <2>1, <2>2, CopyStep
<1>3. ASSUME wpc' \in Storing, "used" \notin pending'
      PROVE  <<From(msg'), Key(msg')>> \in used'
  <2>1. CASE wpc \in Storing /\ UNCHANGED <<msg, rec>>
    <3>1. CASE "used" \notin pending
      BY <2>1, <3>1, <1>0 DEF Opening
    <3>2. CASE "used" \in pending
      <4>1. MarkUsed \/ UNCHANGED pending \/ "used" \in pending'
        <5>1. CASE UNCHANGED worker \/ Crash \/ Connect \/ Read \/ Ack
          BY <1>3, <2>1, <5>1 DEF worker, Crash, Connect, Read, Ack, Storing
        <5>2. CASE Load \/ Show \/ Forget \/ Remember
          BY <2>1, <5>2 DEF Load, Show, Forget, Remember, Storing
        <5>3. CASE SaveIdentity \/ WriteIdentity
          BY <1>3, <3>2, <5>3 DEF SaveIdentity, WriteIdentity, Stored, DispatchEnds, Storing
        <5>4. CASE StoreDelete \/ StoreWrite
          BY <1>3, <3>2, <5>4 DEF StoreDelete, StoreWrite, Stored, DispatchEnds, Storing
        <5> QED BY <5>1, <5>2, <5>3, <5>4, WorkerFrame DEF WorkerStep
      <4>2. MarkUsed
        BY <1>3, <3>2, <4>1
      <4>3. used' = used \union {<<From(msg), Key(msg)>>}
        BY <1>3, <4>2 DEF MarkUsed, DispatchEnds, Storing
      <4> QED BY <2>1, <4>3
    <3> QED BY <3>1, <3>2
  <2>2. CASE Load /\ Decrypts(session[From(msg)]) /\ UNCHANGED msg
    <3>1. ~NewSession(session[From(msg)])
      BY <1>3, <2>2, LoadGot
    <3>2. /\ session[From(msg)] # None /\ session[From(msg)].key = Key(msg)
          /\ From(msg) \in Peers
      BY <2>2, <3>1, LoadGot, MessageFact DEF Load, Holding
    <3>3. <<From(msg), Key(msg)>> \in used
      BY <3>2 DEF Opening, Opened
    <3> QED BY <1>0, <2>2, <3>3
  <2> QED BY <1>3, <2>1, <2>2, RecStep
<1>4. ASSUME NEW m \in Ids, Known(m)'
      PROVE  <<From(m), Key(m)>> \in used'
  <2>1. CASE Known(m)
    BY <1>0, <2>1 DEF Opening
  <2>2. CASE m = msg /\ StoreWrite
    <3>1. <<From(msg), Key(msg)>> \in used
      BY <2>2 DEF StoreWrite, Opening, Storing, LastStore
    <3> QED BY <1>0, <2>2, <3>1
  <2> QED BY <1>4, <2>1, <2>2, KnownStep
<1>5. Ids' = Ids /\ \A m : From(m)' = From(m) /\ Key(m)' = Key(m)
  BY DEF Ids, From, Key
<1> QED BY <1>1, <1>2, <1>3, <1>4 DEF Opening, From, Key, Ids

\* As long as no store has been clobbered, every record that counts holds the
\* messages that are known: the one on disk, the one the worker stores, and
\* that of the main thread unless the worker has overtaken it.
HeldBy(m) ==
  /\ session[From(m)] # None => m \in session[From(m)].got
  /\ MainHolds(From(m)) /\ "main" \notin stale => m \in copy.got
  /\ WorkerHolds(From(m)) => m \in rec.got

Recorded ==
  /\ ~clobbered => \A m \in Ids : Known(m) => HeldBy(m)
  /\ wpc \in Storing => msg \in rec.got
  /\ wpc \in Storing \union {"show"} /\ ~clobbered => shown[msg] = 0
  /\ ShownOnce

\* The main thread's record stays outdated until it is loaded again.
LEMMA StaleMain ==
  ASSUME [Next]_vars, "main" \notin stale', mpc' \in Posting, ~LoadCopy
  PROVE  "main" \notin stale
<1> USE DEF Posting, stores
<1>1. CASE UNCHANGED stores
  BY <1>1 DEF StoreWrite
<1>2. CASE Load
  BY <1>2 DEF Load, disk
<1>3. CASE StoreWrite
  BY <1>3 DEF StoreWrite
<1>4. CASE CopyWrite
  BY <1>4 DEF CopyWrite, PostEnds
<1> QED BY <1>1, <1>2, <1>3, <1>4, StoresFrame

\* What the worker finds when it decrypts a message: none of the peer is
\* known by a new session, and an old one has the known ones and not this.
LEMMA DecryptsNew ==
  ASSUME TypeOK, Holding, ShownFromPinned, Opening, Recorded, ~clobbered,
         Load, Decrypts(session[From(msg)])
  PROVE  /\ shown[msg] = 0 /\ msg \in rec'.got
         /\ \A m \in Ids : From(m) = From(msg) /\ shown[m] > 0 => m \in rec'.got
<1> DEFINE old == session[From(msg)]
<1>1. msg \in Ids /\ From(msg) \in Peers /\ msg \in rec'.got
  BY LoadGot, MessageFact DEF Load, Holding
<1>2. CASE NewSession(old)
  <2>1. rec'.got = {msg} /\ <<From(msg), Key(msg)>> \notin used
    BY <1>2, LoadGot
  <2>2. ASSUME NEW m \in Ids, From(m) = From(msg), shown[m] > 0
        PROVE  FALSE
    <3>1. identity[From(m)] = Key(m) /\ Key(m) \in Keys
      BY <2>2, MessageFact DEF ShownFromPinned
    <3>2. Key(m) = Key(msg)
      BY <2>2, <3>1, NamesAssumption DEF Decrypts, Trusts
    <3>3. <<From(m), Key(m)>> \in used
      BY <2>2 DEF Opening, Known
    <3> QED BY <2>1, <2>2, <3>2, <3>3
  <2>3. shown[msg] = 0
    BY <1>1, <2>2 DEF TypeOK
  <2> QED BY <1>1, <2>2, <2>3
<1>3. CASE ~NewSession(old)
  <2>1. old # None /\ msg \notin old.got /\ rec'.got = old.got \union {msg}
    BY <1>3, LoadGot
  <2>2. \A m \in Ids : From(m) = From(msg) /\ shown[m] > 0 => m \in old.got
    BY <2>1 DEF Recorded, HeldBy, Known
  <2>3. shown[msg] = 0
    BY <1>1, <2>1, <2>2 DEF TypeOK
  <2> QED BY <1>1, <2>1, <2>2, <2>3
<1> QED BY <1>2, <1>3

LEMMA NextHeld ==
  ASSUME ConversationInv, LastStore, Opening, Recorded, [Next]_vars, ~clobbered',
         NEW m \in Ids, Known(m)'
  PROVE  HeldBy(m)'
<1>0. TypeOK /\ Holding /\ ShownFromPinned
  BY DEF ConversationInv
<1>1. ~clobbered
  BY <1>0, StoresStep DEF TypeOK
<1>2. From(m) \in Peers
  BY MessageFact
<1>3. \/ Known(m) /\ HeldBy(m)
      \/ m = msg /\ StoreWrite /\ wpc' = "show" /\ msg' = msg /\ session' = [session EXCEPT ![From(msg)] = rec]
  BY <1>0, <1>1, KnownStep DEF Recorded
<1>4. ASSUME session'[From(m)] # None PROVE m \in session'[From(m)].got
  <2>1. CASE session'[From(m)] = session[From(m)] /\ HeldBy(m)
    BY <1>4, <2>1 DEF HeldBy
  <2>2. CASE session'[From(m)] = rec /\ StoreWrite /\ From(m) = From(msg)
    BY <1>3, <2>2 DEF HeldBy, WorkerHolds, StoreWrite, Recorded, Storing
  <2>3. CASE session'[From(m)] = copy /\ CopyWrite /\ From(m) = to
    <3>1. Known(m) /\ HeldBy(m)
      BY <1>3, <2>3 DEF CopyWrite, StoreWrite, worker
    <3>2. CASE UNCHANGED session
      BY <1>4, <3>1, <3>2 DEF HeldBy
    <3>3. CASE clobbered' = (clobbered \/ "main" \in stale)
      <4>1. "main" \notin stale
        BY <3>3, Zenon
      <4> QED BY <2>3, <3>1, <4>1 DEF HeldBy, MainHolds, CopyWrite
    <3>4. UNCHANGED session \/ clobbered' = (clobbered \/ "main" \in stale)
      BY <2>3, Zenon DEF CopyWrite
    <3> QED BY <3>2, <3>3, <3>4
  <2>4. CASE m = msg /\ StoreWrite /\ session' = [session EXCEPT ![From(msg)] = rec]
    BY <1>0, <1>2, <2>2, <2>4 DEF TypeOK
  <2> QED BY <1>0, <1>2, <1>3, <1>4, <2>1, <2>2, <2>3, <2>4, SessionStep
<1>5. ASSUME MainHolds(From(m))', "main" \notin stale' PROVE m \in copy'.got
  <2>1. mpc' \in Posting /\ to' = From(m)
    BY <1>5 DEF MainHolds, Posting, From
  <2>2. CASE LoadCopy /\ UNCHANGED to /\ session[to] # None /\ copy'.got = session[to].got
    <3>1. HeldBy(m)
      BY <1>3, <2>2 DEF LoadCopy, StoreWrite, main, worker
    <3> QED BY <2>1, <2>2, <3>1 DEF HeldBy
  <2>3. CASE mpc \in Posting /\ UNCHANGED <<to, copy>> /\ ~LoadCopy
    <3>1. MainHolds(From(m))
      BY <2>1, <2>3 DEF MainHolds, Posting
    <3>2. "main" \notin stale
      BY <1>5, <2>1, <2>3, StaleMain
    <3>3. HeldBy(m)
      <4>1. CASE m = msg /\ StoreWrite /\ wpc' = "show"
        <5>1. "main" \in stale'
          BY <3>1, <4>1 DEF StoreWrite, DispatchEnds
        <5> QED BY <1>5, <5>1
      <4> QED BY <1>3, <4>1
    <3> QED BY <2>3, <3>1, <3>2, <3>3 DEF HeldBy
  <2>4. LoadCopy => ~(mpc \in Posting)
    BY DEF LoadCopy, Posting
  <2> QED BY <1>0, <2>1, <2>2, <2>3, <2>4, CopyStep
<1>6. ASSUME WorkerHolds(From(m))' PROVE m \in rec'.got
  <2>1. wpc' \in Storing /\ From(msg') = From(m)
    BY <1>6 DEF WorkerHolds, Storing, From
  <2>2. CASE wpc \in Storing /\ UNCHANGED <<msg, rec>> /\ ~StoreWrite
    <3>1. HeldBy(m) /\ WorkerHolds(From(m))
      BY <1>3, <2>1, <2>2 DEF WorkerHolds, Storing
    <3> QED BY <2>2, <3>1 DEF HeldBy
  <2>3. CASE Load /\ Decrypts(session[From(msg)]) /\ UNCHANGED msg
    <3>1. shown[m] > 0
      BY <1>3, <2>3 DEF Load, StoreWrite, Known
    <3> QED BY <1>0, <1>1, <2>1, <2>3, <3>1, DecryptsNew
  <2> QED BY <2>1, <2>2, <2>3, RecStep
<1> QED BY <1>4, <1>5, <1>6 DEF HeldBy, From

LEMMA NextRecorded ==
  ASSUME ConversationInv, LastStore, Opening, Recorded, [Next]_vars
  PROVE  Recorded'
<1>0. TypeOK /\ Holding /\ ShownFromPinned
  BY DEF ConversationInv
<1>1. ~clobbered' => ~clobbered
  BY <1>0, StoresStep DEF TypeOK
<1>2. ~clobbered' => \A m \in Ids : Known(m)' => HeldBy(m)'
  BY NextHeld
<1>3. ASSUME wpc' \in Storing
      PROVE  msg' \in rec'.got /\ (~clobbered' => shown'[msg'] = 0)
  <2>1. UNCHANGED shown
    BY <1>3, ShownFrame DEF Show, DispatchEnds, Storing
  <2>2. CASE wpc \in Storing /\ UNCHANGED <<msg, rec>>
    BY <1>1, <2>1, <2>2 DEF Recorded
  <2>3. CASE Load /\ Decrypts(session[From(msg)]) /\ UNCHANGED msg
    <3>1. msg \in rec'.got
      BY <1>0, <2>3, LoadGot
    <3> QED BY <1>0, <1>1, <2>1, <2>3, <3>1, DecryptsNew
  <2> QED BY <1>3, <2>2, <2>3, RecStep
<1>4. ASSUME wpc' = "show", ~clobbered'
      PROVE  shown'[msg'] = 0
  <2>1. UNCHANGED <<shown, msg>> /\ wpc \in Storing \union {"show"}
    <3>1. CASE UNCHANGED worker \/ Crash \/ Connect \/ Read \/ Ack
      <4>1. UNCHANGED worker
        BY <1>4, <3>1 DEF Crash, Connect, Read, Ack
      <4>2. UNCHANGED shown
        BY <1>4, <4>1, ShownFrame DEF worker, Show, DispatchEnds
      <4> QED BY <1>4, <4>1, <4>2 DEF worker
    <3>2. CASE Load \/ Show \/ Forget \/ Remember
      BY <1>4, <3>2 DEF Load, Show, Forget, Remember, DispatchEnds
    <3>3. CASE MarkUsed \/ SaveIdentity \/ WriteIdentity
      BY <1>4, <3>3 DEF MarkUsed, SaveIdentity, WriteIdentity, Storing
    <3>4. CASE StoreDelete \/ StoreWrite
      BY <1>4, <3>4 DEF StoreDelete, StoreWrite, Storing
    <3> QED BY <3>1, <3>2, <3>3, <3>4, WorkerFrame DEF WorkerStep
  <2> QED BY <1>1, <1>4, <2>1 DEF Recorded
<1>5. ASSUME ~clobbered', NEW m \in Ids
      PROVE  shown'[m] <= 1
  <2>1. shown[m] <= 1 /\ shown[m] \in Nat
    BY <1>0, <1>1, <1>5 DEF Recorded, ShownOnce, TypeOK
  <2>2. CASE UNCHANGED shown
    BY <2>1, <2>2
  <2>3. CASE Show
    <3>1. shown[msg] = 0
      BY <1>1, <1>5, <2>3 DEF Recorded, Show
    <3>2. shown' = shown \/ shown' = [shown EXCEPT ![msg] = @ + 1]
      BY <2>3 DEF Show
    <3> QED BY <1>0, <2>1, <3>1, <3>2 DEF TypeOK
  <2> QED BY <2>2, <2>3, ShownFrame
<1> QED BY <1>2, <1>3, <1>4, <1>5 DEF Recorded, ShownOnce, Ids

-----------------------------------------------------------------------------
(* The records agree.                                                       *)

\* As long as no store has been clobbered the records count what was
\* encrypted for the peer, those of the threads as soon as they are stored ...
Counting ==
  /\ \A p \in Peers : session[p] # None => session[p].sent = encrypted[p]
  /\ mpc \in Posting => copy.sent = encrypted[to] + 1
  /\ wpc \in Storing /\ "worker" \notin stale => rec.sent = encrypted[From(msg)]

\* ... and nothing was encrypted for a peer without a session.
EncryptedOpened ==
  \A p \in Peers : encrypted[p] > 0 => identity[p] \in Keys /\ Opened(p, identity[p])

\* When nothing breaks a record or an identity is only missing while a
\* thread is about to write it.
Present ==
  /\ \A p \in Peers : identity[p] = Empty => wpc = "name" /\ From(msg) = p
  /\ \A m \in Ids : Known(m) /\ session[From(m)] = None =>
       \/ wpc = "write" /\ From(msg) = From(m)
       \/ mpc = "write" /\ to = From(m)

Unbroken == crashes = 0 /\ failures = 0

Agreeing ==
  /\ ~clobbered => Counting
  /\ EncryptedOpened
  /\ Unbroken => Present

LEMMA NextEncryptedOpened ==
  ASSUME TypeOK, Holding, Pinning, Opening, EncryptedOpened, [Next]_vars
  PROVE  EncryptedOpened'
<1> SUFFICES ASSUME NEW p \in Peers, encrypted'[p] > 0
             PROVE  \E k \in Keys : identity'[p] = k /\ <<p, k>> \in used'
  BY DEF EncryptedOpened, Opened
<1>1. CASE encrypted'[p] = encrypted[p]
  <2> DEFINE k == identity[p]
  <2>1. k \in Keys /\ Opened(p, k)
    BY <1>1 DEF EncryptedOpened
  <2> HIDE DEF k
  <2> QED BY <2>1, OpenedKept DEF Opened
<1>2. CASE CopyWrite /\ p = to
  <2>1. Opened(to, copy.key) /\ copy.key \in Keys /\ UNCHANGED <<identity, used>>
    BY <1>2 DEF CopyWrite, Opening, Posting, Holding, Record
  <2> QED BY <1>2, <2>1 DEF Opened
<1>3. encrypted'[p] = encrypted[p] \/ (CopyWrite /\ p = to)
  BY MainFrame DEF CopyWrite, TypeOK
<1> QED BY <1>1, <1>2, <1>3

\* The record a message is decrypted with counts what was encrypted.
LEMMA LoadCounts ==
  ASSUME TypeOK, Holding, Counting, EncryptedOpened, Load, Decrypts(session[From(msg)])
  PROVE  rec'.sent = encrypted[From(msg)]
<1> DEFINE p == From(msg)
<1>1. p \in Peers /\ encrypted[p] \in Nat
  BY MessageFact DEF Load, Holding, TypeOK
<1>2. CASE NewSession(session[p])
  <2>1. rec'.sent = 0 /\ <<p, Key(msg)>> \notin used
    BY <1>2, LoadGot
  <2>2. ~(encrypted[p] > 0)
    <3> SUFFICES ASSUME encrypted[p] > 0 PROVE FALSE
      OBVIOUS
    <3>1. identity[p] \in Keys /\ <<p, identity[p]>> \in used
      BY <1>1 DEF EncryptedOpened, Opened
    <3>2. identity[p] = Key(msg)
      BY <3>1, NamesAssumption DEF Decrypts, Trusts
    <3> QED BY <2>1, <3>1, <3>2
  <2> QED BY <1>1, <2>1, <2>2
<1>3. CASE ~NewSession(session[p])
  BY <1>1, <1>3, LoadGot DEF Counting
<1> QED BY <1>2, <1>3

\* The worker's record stays outdated until it is loaded again.
LEMMA StaleWorker ==
  ASSUME LastStore, [Next]_vars, "worker" \notin stale', wpc' \in Storing, ~Load
  PROVE  "worker" \notin stale
<1>1. ~StoreWrite
  BY RecStep
<1>2. CASE UNCHANGED stores
  BY <1>2 DEF stores
<1>3. CASE LoadCopy
  BY <1>3 DEF LoadCopy
<1>4. CASE CopyWrite
  BY <1>4 DEF CopyWrite, stores
<1> QED BY <1>1, <1>2, <1>3, <1>4, StoresFrame

LEMMA NextCounting ==
  ASSUME TypeOK, Holding, Counting, EncryptedOpened, LastStore, [Next]_vars, ~clobbered'
  PROVE  Counting'
<1>1. ASSUME NEW p \in Peers, session'[p] # None
      PROVE  session'[p].sent = encrypted'[p]
  <2>1. CASE CopyWrite /\ p = to /\ encrypted' = [encrypted EXCEPT ![to] = @ + 1]
    <3>1. session'[p] = copy /\ encrypted'[p] = encrypted[p] + 1
      BY <2>1 DEF CopyWrite, TypeOK
    <3> QED BY <2>1, <3>1 DEF Counting, CopyWrite, Posting
  <2>2. CASE encrypted'[p] = encrypted[p]
    <3>1. CASE session'[p] = session[p]
      BY <1>1, <2>2, <3>1 DEF Counting
    <3>2. CASE session'[p] = rec /\ StoreWrite /\ p = From(msg)
      <4>1. CASE UNCHANGED session
        BY <1>1, <2>2, <4>1 DEF Counting
      <4>2. CASE clobbered' = (clobbered \/ "worker" \in stale)
        <5>1. "worker" \notin stale
          BY <4>2, Zenon
        <5> QED BY <2>2, <3>2, <5>1 DEF Counting, StoreWrite, Storing
      <4>3. UNCHANGED session \/ clobbered' = (clobbered \/ "worker" \in stale)
        BY <3>2, Zenon DEF StoreWrite
      <4> QED BY <4>1, <4>2, <4>3
    <3>3. CASE CopyWrite /\ p = to
      BY <1>1, <2>2, <3>3 DEF CopyWrite, TypeOK, Counting
    <3> QED BY <1>1, <3>1, <3>2, <3>3, SessionStep
  <2>3. \/ encrypted'[p] = encrypted[p]
        \/ CopyWrite /\ p = to /\ encrypted' = [encrypted EXCEPT ![to] = @ + 1]
    BY MainFrame DEF CopyWrite, TypeOK
  <2> QED BY <2>1, <2>2, <2>3
<1>2. ASSUME mpc' \in Posting
      PROVE  copy'.sent = encrypted'[to'] + 1
  <2>1. UNCHANGED encrypted
    BY <1>2, MainFrame DEF CopyWrite, PostEnds, Posting
  <2>2. CASE mpc \in Posting /\ UNCHANGED <<to, copy>>
    BY <2>1, <2>2 DEF Counting
  <2>3. CASE LoadCopy /\ UNCHANGED to /\ session[to] # None /\ copy'.sent = session[to].sent + 1
    BY <2>1, <2>3 DEF Counting, LoadCopy, Holding
  <2> QED BY <1>2, <2>2, <2>3, CopyStep
<1>3. ASSUME wpc' \in Storing, "worker" \notin stale'
      PROVE  rec'.sent = encrypted'[From(msg')]
  <2>1. CASE Load /\ Decrypts(session[From(msg)]) /\ UNCHANGED msg
    <3>1. UNCHANGED encrypted
      BY <2>1 DEF Load
    <3> QED BY <2>1, <3>1, LoadCounts
  <2>2. CASE wpc \in Storing /\ UNCHANGED <<msg, rec>> /\ ~StoreWrite
    <3>1. "worker" \notin stale
      BY <1>3, <2>2, StaleWorker DEF Load, Storing
    <3>2. CASE UNCHANGED encrypted
      BY <2>2, <3>1, <3>2 DEF Counting
    <3>3. CASE CopyWrite /\ stale' = (stale \ {"main"}) \union IF WorkerHolds(to) THEN {"worker"} ELSE {}
      <4>1. From(msg) # to
        BY <1>3, <2>2, <3>3 DEF WorkerHolds, Storing
      <4>2. encrypted'[From(msg)] = encrypted[From(msg)]
        <5>1. From(msg) \in Peers
          BY <2>2, MessageFact DEF Holding, Storing
        <5> QED BY <3>3, <4>1, <5>1 DEF CopyWrite, TypeOK
      <4> QED BY <2>2, <3>1, <4>2 DEF Counting
    <3>4. \/ UNCHANGED encrypted
          \/ CopyWrite /\ stale' = (stale \ {"main"}) \union IF WorkerHolds(to) THEN {"worker"} ELSE {}
      BY MainFrame DEF CopyWrite
    <3> QED BY <3>2, <3>3, <3>4
  <2> QED BY <1>3, <2>1, <2>2, RecStep
<1> QED BY <1>1, <1>2, <1>3 DEF Counting, From

LEMMA NextPresent ==
  ASSUME TypeOK, Holding, LastStore, Present, [Next]_vars, crashes' = 0, failures' = 0
  PROVE  Present'
<1>1. ~Crash /\ UNCHANGED failures
  <2>1. ~Crash
    BY DEF Crash, TypeOK
  <2>2. UNCHANGED failures
    <3>1. CASE MarkUsed \/ SaveIdentity \/ WriteIdentity \/ StoreWrite \/ Remember \/ Ack \/ CopyWrite
      BY <3>1 DEF MarkUsed, SaveIdentity, WriteIdentity, StoreWrite, Remember, Ack, CopyWrite, Fails, TypeOK
    <3>2. CASE Connect \/ Read \/ Load \/ StoreDelete \/ Show \/ Forget \/ Post \/ Find
               \/ LoadCopy \/ CopyDelete \/ Drop \/ UNCHANGED vars
      BY <3>2 DEF Connect, Read, Load, StoreDelete, Show, Forget, Post, Find, LoadCopy,
                        CopyDelete, Drop, vars, bounds
    <3> QED BY <2>1, <3>1, <3>2 DEF Next, WorkerStep, MainStep
  <2> QED BY <2>1, <2>2
<1>2. ASSUME NEW p \in Peers, identity'[p] = Empty
      PROVE  wpc' = "name" /\ From(msg') = p
  <2>1. CASE SaveIdentity
    <3>1. rec.key # Empty
      BY <2>1, NamesAssumption DEF SaveIdentity, Holding, Record
    <3>2. From(msg) = p /\ wpc' = "name"
      BY <1>1, <1>2, <2>1, <3>1 DEF SaveIdentity, Fails, Present, TypeOK
    <3> QED BY <2>1, <3>2 DEF SaveIdentity
  <2>2. CASE WriteIdentity
    <3>1. rec.key # Empty
      BY <2>2, NamesAssumption DEF WriteIdentity, Holding, Record
    <3>2. identity' = [identity EXCEPT ![From(msg)] = rec.key]
      BY <1>1, <2>2 DEF WriteIdentity, Fails, TypeOK
    <3> QED BY <1>2, <3>1, <3>2 DEF Present, TypeOK
  <2>3. CASE UNCHANGED identity /\ ~WriteIdentity
    <3>1. wpc = "name" /\ From(msg) = p
      BY <1>2, <2>3 DEF Present
    <3>2. UNCHANGED worker
      BY <1>1, <2>3, <3>1, WorkerFrame DEF WorkerStep, Connect, Read, Load, MarkUsed, SaveIdentity,
         StoreDelete, StoreWrite, Show, Forget, Remember, Ack
    <3> QED BY <3>1, <3>2 DEF worker
  <2> QED BY <2>1, <2>2, <2>3, DiskFrame
<1>3. ASSUME NEW m \in Ids, Known(m)', session'[From(m)] = None
      PROVE  \/ wpc' = "write" /\ From(msg') = From(m)
             \/ mpc' = "write" /\ to' = From(m)
  <2> DEFINE p == From(m)
  <2>0. p \in Peers
    BY MessageFact
  <2>1. CASE StoreDelete /\ p = From(msg)
    BY <2>1 DEF StoreDelete
  <2>2. CASE CopyDelete /\ p = to
    BY <2>2 DEF CopyDelete
  <2>3. ~(session'[p] = rec /\ StoreWrite /\ p = From(msg))
    BY <1>3, RecordAssumption DEF StoreWrite, Holding
  <2>4. ~(session'[p] = copy /\ CopyWrite /\ p = to)
    BY <1>3, RecordAssumption DEF CopyWrite, Holding
  <2>5. CASE session'[p] = session[p]
    <3>1. Known(m)
      <4>1. ~(m = msg /\ StoreWrite /\ session' = [session EXCEPT ![From(msg)] = rec])
        BY <1>3, <2>0, <2>3 DEF TypeOK
      <4> QED BY <1>3, <4>1, KnownStep
    <3>2. CASE wpc = "write" /\ From(msg) = p
      <4>1. ~StoreWrite
        <5> SUFFICES ASSUME StoreWrite PROVE FALSE
          OBVIOUS
        <5>1. session' = [session EXCEPT ![From(msg)] = rec]
          BY <1>1 DEF StoreWrite, Fails, TypeOK
        <5> QED BY <2>0, <2>3, <3>2, <5>1 DEF TypeOK
      <4>2. UNCHANGED worker
        BY <1>1, <3>2, <4>1, WorkerFrame DEF WorkerStep, Connect, Read, Load, MarkUsed, SaveIdentity,
           WriteIdentity, StoreDelete, Show, Forget, Remember, Ack
      <4> QED BY <3>2, <4>2 DEF worker
    <3>3. CASE mpc = "write" /\ to = p
      <4>1. ~CopyWrite
        <5> SUFFICES ASSUME CopyWrite PROVE FALSE
          OBVIOUS
        <5>1. session' = [session EXCEPT ![to] = copy]
          BY <1>1 DEF CopyWrite, Fails, TypeOK
        <5> QED BY <2>0, <2>4, <3>3, <5>1 DEF TypeOK
      <4>2. UNCHANGED main
        BY <1>1, <3>3, <4>1, MainFrame DEF MainStep, Post, Find, LoadCopy, CopyDelete
      <4> QED BY <3>3, <4>2 DEF main
    <3> QED BY <1>3, <2>5, <3>1, <3>2, <3>3 DEF Present
  <2> QED BY <2>0, <2>1, <2>2, <2>3, <2>4, <2>5, SessionStep
<1> QED BY <1>2, <1>3 DEF Present, From, Ids

\* Nothing that has broken is repaired.
LEMMA BrokenStays ==
  ASSUME TypeOK, [Next]_vars, Unbroken'
  PROVE  Unbroken
<1> USE DEF Unbroken, TypeOK, Fails
<1>1. CASE UNCHANGED bounds
  BY <1>1 DEF bounds
<1>2. CASE Drop \/ Crash
  BY <1>2 DEF Drop, Crash
<1>3. CASE MarkUsed \/ SaveIdentity \/ WriteIdentity \/ StoreWrite \/ Remember \/ Ack \/ CopyWrite
  BY <1>3 DEF MarkUsed, SaveIdentity, WriteIdentity, StoreWrite, Remember, Ack, CopyWrite
<1>4. CASE Connect \/ Read \/ Load \/ StoreDelete \/ Show \/ Forget \/ Post \/ Find
           \/ LoadCopy \/ CopyDelete \/ UNCHANGED vars
  BY <1>1, <1>4 DEF Connect, Read, Load, StoreDelete, Show, Forget, Post, Find, LoadCopy,
                    CopyDelete, vars, bounds
<1> QED BY <1>2, <1>3, <1>4 DEF Next, WorkerStep, MainStep

LEMMA NextAgreeing ==
  ASSUME ConversationInv, LastStore, Opening, Agreeing, [Next]_vars
  PROVE  Agreeing'
<1>0. TypeOK /\ Holding /\ Pinning
  BY DEF ConversationInv
<1>1. ~clobbered' => Counting'
  <2>1. ~clobbered' => ~clobbered
    BY <1>0, StoresStep DEF TypeOK
  <2> QED BY <1>0, <2>1, NextCounting DEF Agreeing
<1>2. EncryptedOpened'
  BY <1>0, NextEncryptedOpened DEF Agreeing
<1>3. Unbroken' => Present'
  BY <1>0, BrokenStays, NextPresent DEF Agreeing, Unbroken
<1> QED BY <1>1, <1>2, <1>3 DEF Agreeing

-----------------------------------------------------------------------------
(* What was decrypted is shown.                                             *)

\* From the decryption to the chat, or to the end of the thread.
Going == Storing \union {"show", "dead"}

\* The content is in the chat, or its message is on the way there.
Coming(m) == Messages[m].content # "none" => shown[m] > 0 \/ (m = msg /\ wpc \in Going)

\* As long as nothing breaks, every record holds such messages only.
Showing ==
  Unbroken =>
    /\ \A p \in Peers : session[p] # None => \A m \in session[p].got : Coming(m)
    /\ mpc \in Posting => \A m \in copy.got : Coming(m)
    /\ wpc \in Storing => \A m \in rec.got : Coming(m)

\* The padding takes nothing from a content.
LEMMA ContentFact ==
  ASSUME NEW m \in Ids
  PROVE  Content[m] = Messages[m].content
<1>1. Messages[m].bytes \in Seq(Byte)
  <2> DEFINE M == [from : Peers, key : Keys, type : {"prekey", "cipher", "other"},
                   content : Contents, bytes : Seq(Byte)]
  <2>1. Messages \in Seq(M)
    BY MessagesAssumption
  <2>2. Messages[m] \in M
    <3> HIDE DEF M
    <3> QED BY <2>1 DEF Ids
  <2> QED BY <2>2
<1>2. Strip(Pad(Messages[m].bytes)) = Messages[m].bytes
  BY <1>1, StripInvertsPad
<1> QED BY <1>2 DEF Content

LEMMA NothingFails ==
  ASSUME TypeOK, [Next]_vars, Unbroken'
  PROVE  ~Crash /\ ~Fails
<1> QED BY DEF Unbroken, Crash, Fails, TypeOK

LEMMA ComingKept ==
  ASSUME TypeOK, Holding, LastStore, [Next]_vars, Unbroken', NEW m \in Ids, Coming(m)
  PROVE  Coming(m)'
<1> SUFFICES ASSUME Messages[m].content # "none"
             PROVE  shown'[m] > 0 \/ (m = msg' /\ wpc' \in Going)
  BY DEF Coming
<1>1. CASE shown[m] > 0
  BY <1>1, ShownFrame DEF Show, TypeOK
<1>2. CASE m = msg /\ wpc = "show"
  <2>1. CASE Show
    <3>1. shown' = [shown EXCEPT ![msg] = @ + 1] \/ (wpc' = "dead" /\ UNCHANGED msg)
      BY <1>2, <2>1, ContentFact, MessageFact DEF Show, Contents
    <3> QED BY <1>2, <3>1 DEF TypeOK, Going
  <2>2. CASE ~Show
    <3>1. UNCHANGED worker
      BY <1>2, <2>2, NothingFails, WorkerFrame DEF WorkerStep, Connect, Read, Load, MarkUsed,
         SaveIdentity, WriteIdentity, StoreDelete, StoreWrite, Forget, Remember, Ack
    <3> QED BY <1>2, <3>1 DEF worker, Going
  <2> QED BY <2>1, <2>2
<1>3. CASE m = msg /\ wpc \in Storing
  <2> USE DEF Storing, Going
  <2>1. CASE UNCHANGED worker
    BY <1>3, <2>1 DEF worker
  <2>2. CASE MarkUsed
    BY <1>3, <2>2, NothingFails DEF MarkUsed, Stored
  <2>3. CASE SaveIdentity \/ WriteIdentity
    BY <1>3, <2>3, NothingFails DEF SaveIdentity, WriteIdentity, Stored
  <2>4. CASE StoreDelete \/ StoreWrite
    BY <1>3, <2>4, NothingFails DEF StoreDelete, StoreWrite, Stored
  <2>5. ~(Connect \/ Read \/ Load \/ Show \/ Forget \/ Remember \/ Ack)
    BY <1>3 DEF Connect, Read, Load, Show, Forget, Remember, Ack
  <2> QED BY <2>1, <2>2, <2>3, <2>4, <2>5, NothingFails, WorkerFrame DEF WorkerStep
<1>4. CASE m = msg /\ wpc = "dead"
  <2>1. UNCHANGED worker
    BY <1>4, NothingFails, WorkerFrame DEF WorkerStep, Connect, Read, Load, MarkUsed,
       SaveIdentity, WriteIdentity, StoreDelete, StoreWrite, Show, Forget, Remember, Ack
  <2> QED BY <1>4, <2>1 DEF worker, Going
<1> QED BY <1>1, <1>2, <1>3, <1>4 DEF Coming, Going

LEMMA NextShowing ==
  ASSUME ConversationInv, LastStore, Showing, [Next]_vars
  PROVE  Showing'
<1> SUFFICES ASSUME Unbroken'
             PROVE  /\ \A p \in Peers : session'[p] # None => \A m \in session'[p].got : Coming(m)'
                    /\ mpc' \in Posting => \A m \in copy'.got : Coming(m)'
                    /\ wpc' \in Storing => \A m \in rec'.got : Coming(m)'
  BY DEF Showing
<1>0. TypeOK /\ Holding /\ Unbroken
  BY BrokenStays DEF ConversationInv
<1>1. \A m \in Ids : Coming(m) => Coming(m)'
  BY <1>0, ComingKept
<1>2. \A r \in Record : r.got \subseteq Ids
  BY DEF Record
<1>3. ASSUME NEW p \in Peers, session'[p] # None
      PROVE  \A m \in session'[p].got : Coming(m)'
  <2>1. CASE session'[p] = session[p]
    BY <1>0, <1>1, <1>2, <1>3, <2>1 DEF Showing, TypeOK
  <2>2. CASE session'[p] = rec /\ StoreWrite
    BY <1>0, <1>1, <1>2, <2>2 DEF Showing, StoreWrite, Storing, Holding
  <2>3. CASE session'[p] = copy /\ CopyWrite
    BY <1>0, <1>1, <1>2, <2>3 DEF Showing, CopyWrite, Posting, Holding
  <2> QED BY <1>0, <1>3, <2>1, <2>2, <2>3, SessionStep
<1>4. ASSUME mpc' \in Posting
      PROVE  \A m \in copy'.got : Coming(m)'
  <2>1. CASE mpc \in Posting /\ UNCHANGED <<to, copy>>
    BY <1>0, <1>1, <1>2, <2>1 DEF Showing, Posting, Holding
  <2>2. CASE LoadCopy /\ session[to] # None /\ copy'.got = session[to].got
    BY <1>0, <1>1, <1>2, <2>2 DEF Showing, LoadCopy, Holding, TypeOK
  <2> QED BY <1>0, <1>4, <2>1, <2>2, CopyStep
<1>5. ASSUME wpc' \in Storing
      PROVE  \A m \in rec'.got : Coming(m)'
  <2>1. CASE wpc \in Storing /\ UNCHANGED <<msg, rec>>
    BY <1>0, <1>1, <1>2, <2>1 DEF Showing, Storing, Holding
  <2>2. CASE Load /\ Decrypts(session[From(msg)]) /\ UNCHANGED msg
    <3> DEFINE old == session[From(msg)]
    <3>1. From(msg) \in Peers /\ msg \in Ids
      BY <1>0, <2>2, MessageFact DEF Load, Holding
    <3>2. \/ rec'.got = {msg}
          \/ old # None /\ rec'.got = old.got \union {msg}
      BY <1>0, <2>2, LoadGot
    <3>3. \A m : m = msg' => Coming(m)'
      BY <1>5 DEF Coming, Going
    <3>4. old # None => \A m \in old.got : m \in Ids /\ Coming(m)
      BY <1>0, <1>2, <3>1 DEF Showing, TypeOK
    <3>5. \A m \in rec'.got : m = msg \/ (old # None /\ m \in old.got)
      BY <3>2
    <3> HIDE DEF old
    <3>6. \A m : old # None /\ m \in old.got => Coming(m)'
      BY <1>1, <3>4
    <3> QED BY <2>2, <3>3, <3>5, <3>6
  <2> QED BY <1>0, <1>5, <2>1, <2>2, RecStep
<1> QED BY <1>3, <1>4, <1>5

-----------------------------------------------------------------------------
\* The parts are preserved together.
LEMMA NextConversation ==
  ASSUME ConversationInv, [Next]_vars
  PROVE  ConversationInv'
<1> USE DEF ConversationInv
<1>1. TypeOK' /\ Counts' /\ Holding'
  BY NextType, NextCounts, NextHolding
<1>2. Pinning' /\ ShownFromPinned'
  BY NextPinning, NextShownFromPinned
<1>3. Remembering' /\ RecipientWasShown'
  BY NextRemembering, NextRecipientWasShown
<1>4. Acking' /\ AckedWasHandled'
  BY NextAcking
<1> QED BY <1>1, <1>2, <1>3, <1>4

\* The parts hold in every state, whatever breaks.
THEOREM ConversationCorrect == Spec => []ConversationInv
<1>1. ConversationInv /\ [Next]_vars => ConversationInv'
  BY NextConversation
<1> QED BY InitConversation, <1>1, PTL DEF Spec

\* The records and both threads keep their types: no record counts more
\* messages than were posted.
THEOREM RecordsKeepTypes == Spec => []TypeOK
<1> QED BY ConversationCorrect, PTL DEF ConversationInv

\* The server forgets no message whose dispatch has not run to its end
\* (handle_request, send_ack).
THEOREM AcksFollowDispatch == Spec => []AckedWasHandled
<1> QED BY ConversationCorrect, PTL DEF ConversationInv

\* A post goes to a peer of whom a text was shown (set_current_recipient,
\* current_recipient, SigChat::post).
THEOREM PostsAnswerTexts == Spec => []RecipientWasShown
<1> QED BY ConversationCorrect, PTL DEF ConversationInv

\* All texts shown for a peer are of the identity on disk: a pinned identity
\* is never replaced (is_trusted_identity, save_identity).
THEOREM TextsOfOneIdentity == Spec => []ShownFromPinned
<1> QED BY ConversationCorrect, PTL DEF ConversationInv

\* Together they are inductive.
RecordsInv ==
  ConversationInv /\ LastStore /\ Opening /\ Recorded /\ Agreeing /\ Showing

LEMMA InitRecords == Init => RecordsInv
<1> SUFFICES ASSUME Init PROVE RecordsInv
  OBVIOUS
<1>1. ConversationInv
  BY InitConversation
<1> USE DEF Init, Storing, Posting
<1>2. LastStore
  BY DEF LastStore
<1>3. \A m \in Ids : ~Known(m)
  BY DEF Known
<1>4. Opening
  BY <1>3 DEF Opening
<1>5. Recorded
  BY <1>3 DEF Recorded, ShownOnce
<1>6. Agreeing
  BY <1>3, NamesAssumption DEF Agreeing, Counting, EncryptedOpened, Present
<1>7. Showing
  BY DEF Showing
<1> QED BY <1>1, <1>2, <1>4, <1>5, <1>6, <1>7 DEF RecordsInv

LEMMA NextRecords ==
  ASSUME RecordsInv, [Next]_vars
  PROVE  RecordsInv'
<1> USE DEF RecordsInv
<1>1. ConversationInv' /\ LastStore'
  BY NextConversation, NextLastStore
<1>2. Opening'
  BY NextOpening DEF ConversationInv
<1>3. Recorded' /\ Agreeing' /\ Showing'
  BY NextRecorded, NextAgreeing, NextShowing
<1> QED BY <1>1, <1>2, <1>3

\* Whatever breaks, the records are opened, hold what was shown and count
\* what was sent, as far as no store was clobbered and nothing broke.
THEOREM RecordsCorrect == Spec => []RecordsInv
<1>1. RecordsInv /\ [Next]_vars => RecordsInv'
  BY NextRecords
<1> QED BY InitRecords, <1>1, PTL DEF Spec

\* A message is shown at most once, however often it is delivered and
\* whatever breaks, as long as neither thread stores a session record the
\* other one has stored since (deliver_content, store_session).
THEOREM MessagesShownOnce == Spec => []ShownOnce
<1>1. RecordsInv => ShownOnce
  BY DEF RecordsInv, Recorded
<1> QED BY RecordsCorrect, <1>1, PTL

\* Both threads at rest, a record counts every message encrypted for its
\* peer and holds every message shown, and its identity can be decoded
\* (store_session, save_identity).
THEOREM RecordsAgreeAtRest == Spec => []RecordsAgree
<1>1. ASSUME RecordsInv PROVE RecordsAgree
  <2> SUFFICES ASSUME AtRest, ~clobbered, Unbroken, NEW p \in Peers
               PROVE  /\ session[p] # None => session[p].sent = encrypted[p] /\ identity[p] = session[p].key
                      /\ identity[p] # Empty
                      /\ \A m \in Ids : From(m) = p /\ shown[m] > 0 =>
                           session[p] # None /\ m \in session[p].got
    BY DEF RecordsAgree, Unbroken
  <2> USE <1>1 DEF RecordsInv, AtRest
  <2>1. session[p] # None => session[p].sent = encrypted[p] /\ identity[p] = session[p].key
    BY DEF Agreeing, Counting, Opening, Opened
  <2>2. identity[p] # Empty
    BY DEF Agreeing, Present
  <2>3. ASSUME NEW m \in Ids, From(m) = p, shown[m] > 0
        PROVE  session[p] # None /\ m \in session[p].got
    <3>1. Known(m)
      BY <2>3 DEF Known
    <3> QED BY <2>3, <3>1 DEF Agreeing, Present, Recorded, HeldBy
  <2> QED BY <2>1, <2>2, <2>3
<1> QED BY RecordsCorrect, <1>1, PTL

\* A receive worker that reads its next frame has shown every text it has
\* decrypted, but for a crash or a call that failed, whatever bytes the text
\* ends in (strip_signal_padding, deliver_content).
THEOREM DecryptedIsDelivered == Spec => []DecryptedIsShown
<1>1. ASSUME RecordsInv PROVE DecryptedIsShown
  <2> SUFFICES ASSUME wpc = "read", Unbroken, NEW p \in Peers, session[p] # None,
                      NEW m \in session[p].got, Messages[m].content # "none"
               PROVE  shown[m] > 0
    BY DEF DecryptedIsShown, Unbroken
  <2>1. Coming(m)
    BY <1>1 DEF RecordsInv, Showing
  <2> QED BY <2>1 DEF Coming, Going, Storing
<1> QED BY RecordsCorrect, <1>1, PTL
=============================================================================
