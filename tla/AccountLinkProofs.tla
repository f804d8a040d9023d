-------------------------- MODULE AccountLinkProofs --------------------------
(***************************************************************************)
(* What the account dictionary holds after any number of link attempts,    *)
(* crashes and failing writes.                                             *)
(***************************************************************************)
EXTENDS AccountLink, TLAPS

LEMMA FieldsFact ==
  /\ Rng(LinkWrites) = {"password", "device_id", "aci_identity", "aci_service_id", "pni",
                        "is_multi_device", "number", "profile", "aep", "registration_id",
                        "manifest", "registered"}
  /\ Fields = Rng(LinkWrites) \cup {"host"}
  /\ Len(LinkWrites) = 12 /\ Len(NewWrites) = 11
<1> QED BY DEF Rng, LinkWrites, NewWrites, Fields

LEMMA LinkWritesFact ==
  /\ \A i, j \in 1..12 : LinkWrites[i] = LinkWrites[j] => i = j
  /\ \A i \in 1..12 : LinkWrites[i] \in Fields \ {"host"}
  /\ \A i \in 1..12 : LinkWrites[i] = "registered" => i = 12
  /\ \A f \in Rng(LinkWrites) : \E i \in 1..12 : LinkWrites[i] = f
<1>1. \A i, j \in 1..12 : LinkWrites[i] = LinkWrites[j] => i = j
  BY DEF LinkWrites
<1>2. \A i \in 1..12 : LinkWrites[i] \in Fields \ {"host"}
  BY FieldsFact DEF LinkWrites
<1>3. \A i \in 1..12 : LinkWrites[i] = "registered" => i = 12
  BY DEF LinkWrites
<1>4. \A f \in Rng(LinkWrites) : \E i \in 1..12 : LinkWrites[i] = f
  BY DEF Rng, LinkWrites
<1> QED BY <1>1, <1>2, <1>3, <1>4

\* Account::new clears every field that a link is recognised by.
LEMMA NewWritesFact ==
  /\ \A f \in Fields \ Unread : \E i \in 1..11 : NewWrites[i] = f
  /\ \A i \in 1..11 : NewWrites[i] \in Fields
<1>1. \A f \in Fields \ Unread : \E i \in 1..11 : NewWrites[i] = f
  BY FieldsFact DEF NewWrites, Unread
<1>2. \A i \in 1..11 : NewWrites[i] \in Fields
  BY FieldsFact DEF NewWrites
<1> QED BY <1>1, <1>2

\* Which sequence of writes is under way, and for which field and value.
LEMMA WritesFact ==
  ASSUME Writing, wi \in Nat \ {0}
  PROVE  /\ pc \in {"new", "newRegister"} =>
              /\ wi \in 1..11 /\ Field = NewWrites[wi] /\ Value \in {None, Default}
         /\ pc = "number" => wi = 1 /\ Field = "number" /\ Value = Default
         /\ pc = "save" => wi \in 1..12 /\ Field = LinkWrites[wi] /\ Value = attempt
         /\ Field \in Fields
<1>1. CASE pc \in {"new", "newRegister"}
  <2>1. Writes = NewWrites
    BY <1>1 DEF Writes
  <2>2. wi \in 1..11 /\ Field = NewWrites[wi]
    BY <2>1, FieldsFact DEF Writing, Field
  <2> QED BY <1>1, <2>2, NewWritesFact DEF Value
<1>2. CASE pc = "number"
  <2>1. Writes = <<"number">>
    BY <1>2 DEF Writes
  <2>2. wi = 1
    BY <2>1 DEF Writing
  <2>3. Field = "number"
    BY <2>1, <2>2 DEF Field
  <2> QED BY <1>2, <2>2, <2>3, FieldsFact DEF Value
<1>3. CASE pc = "save"
  <2>1. Writes = LinkWrites
    BY <1>3 DEF Writes
  <2>2. wi \in 1..12 /\ Field = LinkWrites[wi]
    BY <2>1, FieldsFact DEF Writing, Field
  <2> QED BY <1>3, <2>2, LinkWritesFact DEF Value
<1> QED BY <1>1, <1>2, <1>3 DEF Writing

-----------------------------------------------------------------------------
Renewing == {"new", "newRegister"}

Typed ==
  /\ pddb \in [Fields -> Values] /\ attempt \in 0..MaxAttempts
  /\ failures \in Nat /\ wi \in Nat \ {0}
  /\ stale \subseteq Fields
  /\ failures = 0 => stale = {}

\* A field is cleared, as far as its delete did not fail.
Cleared(f) == ~IsSet(pddb[f]) \/ f \in stale

\* With no call failed a key is absent when it is created and empty when it
\* is written.
Opened ==
  Writing /\ failures = 0 =>
    /\ op = "create" => pddb[Field] = None
    /\ op = "write" => pddb[Field] = Empty

\* What is under way when a setup runs: Account::new has cleared the fields
\* it has passed, the saves have put this attempt into theirs.
Progress ==
  /\ pc \in Renewing =>
       \A i \in 1..11 : i < wi \/ (i = wi /\ op # "delete") => Cleared(NewWrites[i])
  /\ pc \in Renewing \union {"number"} /\ failures = 0 => ~IsSet(pddb["registered"])
  /\ pc \in {"provision", "put"} => OnDisk \subseteq stale
  /\ pc \in {"provision", "put", "save", "prekeys"} => pddb["host"] \notin {None, Empty}
  /\ pc = "save" =>
       /\ \A f \in OnDisk \ stale : pddb[f] = attempt
       /\ wi <= 12 /\ failures = 0 => ~IsSet(pddb["registered"])
       /\ failures = 0 =>
            \A i \in 1..12 : i < wi => LinkWrites[i] = "aep" \/ pddb[LinkWrites[i]] = attempt
  /\ pc \in {"save", "prekeys"} => attempt \in server

\* With no call failed the flag is on an account that is readable, which no
\* setup starts on.
Flagged ==
  IsSet(pddb["registered"]) /\ failures = 0 => pddb["host"] \notin {None, Empty}

\* The account account_register hands over differs from the disk by what was
\* not read, and by the number while that is being written.
Numbering ==
  pc = "number" /\ mem # None =>
    /\ mem \in [Fields -> Values]
    /\ \A f \in Fields : mem[f] # pddb[f] =>
         /\ mem[f] = None \/ f = "number"
         /\ failures = 0 => f = "number" /\ op # "delete" /\ wi = 1

AccountInv ==
  /\ Typed /\ Progress /\ Opened /\ Flagged /\ Numbering
  /\ manager # None => pc = "idle"
  /\ OnlyAcceptedStored /\ OneLinkOnDisk /\ FlagIsLast /\ LoadedIsOnDisk

LEMMA InitAccount == Init => AccountInv
<1> SUFFICES ASSUME Init PROVE AccountInv
  OBVIOUS
<1>1. Typed
  BY BoundsAssumption DEF Init, Typed, Values
<1>2. \A f \in Fields : ~IsSet(pddb[f])
  BY DEF Init, IsSet
<1>3. "registered" \in Fields
  BY FieldsFact
<1> QED BY <1>1, <1>2, <1>3 DEF Init, AccountInv, Progress, Opened, Writing, Numbering, Renewing,
  Flagged, OnlyAcceptedStored, OneLinkOnDisk, FlagIsLast, LoadedIsOnDisk, OnDisk

-----------------------------------------------------------------------------
(* The calls of set, as they change the dictionary.                         *)

\* The key is deleted, and when there is nothing to write set returns.
Deletes ==
  /\ op = "delete" /\ pddb' = [pddb EXCEPT ![Field] = None] /\ stale' = stale \ {Field}
  /\ failures' = failures
  /\ \/ Value = None /\ wi' = wi + 1 /\ op' = "delete"
     \/ Value # None /\ wi' = wi /\ op' = "create"

Creates ==
  /\ op = "create" /\ pddb' = [pddb EXCEPT ![Field] = IF @ = None THEN Empty ELSE @]
  /\ stale' = stale /\ failures' = failures /\ wi' = wi /\ op' = "write"

Puts ==
  /\ op = "write"
  /\ \E v \in {Value, Empty, pddb[Field]} :
       /\ pddb[Field] = Empty => v = Value
       /\ pddb' = [pddb EXCEPT ![Field] = v]
  /\ stale' = stale /\ failures' = failures /\ wi' = wi + 1 /\ op' = "delete"

\* A call fails: the key is left as the calls before have left it.
Loses ==
  /\ UNCHANGED pddb /\ failures' = failures + 1 /\ failures < MaxFailures
  /\ stale' = IF op = "delete" THEN stale \union {Field} ELSE stale
  /\ \/ wi' = wi + 1 /\ op' = "delete"
     \/ wi' = wi /\ op' = "create"

Follows ==
  mem' = mem \/ (mem # None /\ Field \in Cached /\ mem' = [mem EXCEPT ![Field] = Value])

LEMMA WriteCases ==
  ASSUME SetDelete \/ SetCreate \/ SetWrite, wi \in Nat
  PROVE  /\ Writing /\ UNCHANGED <<pc, prekeys, manager, attempt, server>> /\ Follows
         /\ Deletes \/ Creates \/ Puts \/ Loses
         /\ wi' = wi => mem' = mem
         /\ wi' # wi /\ mem # None /\ Field \in Cached => mem' = [mem EXCEPT ![Field] = Value]
<1>0. SetReturns => Follows /\ wi' # wi
                   /\ (mem # None /\ Field \in Cached => mem' = [mem EXCEPT ![Field] = Value])
  BY DEF SetReturns, Follows
<1>1. CASE SetDelete
  <2>1. Deletes \/ Loses
    BY <1>1 DEF SetDelete, SetReturns, CallFails, Deletes, Loses
  <2>2. SetReturns \/ (mem' = mem /\ wi' = wi)
    BY <1>1 DEF SetDelete
  <2> QED BY <1>0, <1>1, <2>1, <2>2 DEF SetDelete, Follows
<1>2. CASE SetCreate
  <2>1. Creates \/ Loses
    BY <1>2 DEF SetCreate, SetReturns, CallFails, Creates, Loses
  <2>2. SetReturns \/ (mem' = mem /\ wi' = wi)
    BY <1>2 DEF SetCreate
  <2> QED BY <1>0, <1>2, <2>1, <2>2 DEF SetCreate, Follows
<1>3. CASE SetWrite
  <2>1. Puts \/ Loses
    BY <1>3 DEF SetWrite, SetReturns, CallFails, Puts, Loses
  <2> QED BY <1>0, <1>3, <2>1 DEF SetWrite
<1> QED BY <1>1, <1>2, <1>3

\* What any call of set does to the dictionary and to the history of it.
LEMMA WriteEffect ==
  ASSUME Typed, Opened, SetDelete \/ SetCreate \/ SetWrite, Value \in Values
  PROVE  /\ Typed' /\ Opened'
         /\ \A f \in Fields :
              pddb'[f] = pddb[f] \/ (f = Field /\ pddb'[f] \in {None, Empty, Value})
         /\ \A f \in stale : f \in stale' \/ (f = Field /\ pddb'[f] = None)
         /\ failures' = 0 => failures = 0
         /\ (wi' = wi /\ op' # "delete") \/ (wi' = wi + 1 /\ op' = "delete")
         /\ wi' # wi /\ failures' = 0 => pddb'[Field] = Value
         /\ op = "delete" => pddb'[Field] = None \/ Field \in stale'
<1>0. /\ Writing /\ UNCHANGED <<pc, attempt>>
      /\ Deletes \/ Creates \/ Puts \/ Loses
  BY WriteCases DEF Typed
<1>1. Field \in Fields /\ wi \in Nat \ {0} /\ failures \in Nat /\ pddb[Field] \in Values
      /\ None \in Values /\ Empty \in Values
  BY <1>0, WritesFact DEF Typed, Values
<1>2. /\ pddb' \in [Fields -> Values]
      /\ \A f \in Fields :
           pddb'[f] = pddb[f] \/ (f = Field /\ pddb'[f] \in {None, Empty, Value})
  <2> HIDE DEF Values
  <2>1. pddb' = pddb \/ \E v \in {None, Empty, Value, pddb[Field]} : pddb' = [pddb EXCEPT ![Field] = v]
    BY <1>0 DEF Deletes, Creates, Puts, Loses
  <2>2. pddb \in [Fields -> Values]
    BY DEF Typed
  <2> QED BY <2>1, <2>2, <1>1
<1>3. /\ stale' \subseteq Fields /\ failures' \in Nat /\ wi' \in Nat \ {0}
      /\ failures' = 0 => failures = 0 /\ stale' = {}
      /\ (wi' = wi /\ op' # "delete") \/ (wi' = wi + 1 /\ op' = "delete")
      /\ wi' # wi => wi' = wi + 1
  <2>1. stale \subseteq Fields /\ (failures = 0 => stale = {})
    BY DEF Typed
  <2>2. CASE Deletes \/ Creates \/ Puts
    <3>1. stale' \subseteq stale /\ failures' = failures
      BY <2>2 DEF Deletes, Creates, Puts
    <3>2. (wi' = wi /\ op' # "delete") \/ (wi' = wi + 1 /\ op' = "delete")
      BY <2>2 DEF Deletes, Creates, Puts
    <3> QED BY <1>1, <2>1, <3>1, <3>2
  <2>3. CASE Loses
    <3>1. stale' \subseteq Fields
      BY <1>1, <2>1, <2>3 DEF Loses
    <3>2. failures' \in Nat /\ failures' # 0
      BY <1>1, <2>3 DEF Loses
    <3>3. (wi' = wi /\ op' # "delete") \/ (wi' = wi + 1 /\ op' = "delete")
      BY <2>3 DEF Loses
    <3> QED BY <1>1, <3>1, <3>2, <3>3
  <2> QED BY <1>0, <2>2, <2>3
<1>4. /\ \A f \in stale : f \in stale' \/ (f = Field /\ pddb'[f] = None)
      /\ op = "delete" => pddb'[Field] = None \/ Field \in stale'
  BY <1>0, <1>1 DEF Typed, Deletes, Creates, Puts, Loses
<1>5. wi' # wi /\ failures' = 0 => pddb'[Field] = Value
  <2> SUFFICES ASSUME wi' # wi, failures' = 0 PROVE pddb'[Field] = Value
    OBVIOUS
  <2>1. failures = 0 /\ ~Loses /\ ~Creates
    BY <1>1, <1>3 DEF Loses, Creates
  <2>2. CASE Deletes
    BY <2>2, <1>1 DEF Deletes, Typed
  <2>3. CASE Puts
    <3>1. pddb[Field] = Empty
      BY <2>1, <2>3, <1>0 DEF Opened, Puts
    <3> QED BY <2>3, <3>1, <1>1 DEF Puts, Typed
  <2> QED BY <1>0, <2>1, <2>2, <2>3
<1>6. Opened'
  <2> SUFFICES ASSUME Writing', failures' = 0
               PROVE  /\ op' = "create" => pddb'[Field'] = None
                      /\ op' = "write" => pddb'[Field'] = Empty
    BY DEF Opened
  <2>1. failures = 0 /\ ~Loses
    BY <1>1, <1>3 DEF Loses
  <2>2. wi' = wi => Field' = Field
    BY <1>0 DEF Field, Writes
  <2>3. CASE Deletes
    BY <2>2, <2>3, <1>1 DEF Deletes, Typed
  <2>4. CASE Creates
    <3>1. pddb[Field] = None
      BY <2>1, <2>4, <1>0 DEF Opened, Creates
    <3> QED BY <2>2, <2>4, <3>1, <1>1 DEF Creates, Typed
  <2>5. CASE Puts
    BY <2>5 DEF Puts
  <2> QED BY <1>0, <2>1, <2>3, <2>4, <2>5
<1>7. Typed'
  BY <1>0, <1>2, <1>3 DEF Typed
<1> QED BY <1>2, <1>3, <1>4, <1>5, <1>6, <1>7

\* Outside of a link every call of set leaves less on disk of any link.
LEMMA NewWrite ==
  ASSUME AccountInv, SetDelete \/ SetCreate \/ SetWrite, pc \in Renewing \union {"number"}
  PROVE  AccountInv'
<1>0. wi \in Nat /\ Writing /\ UNCHANGED <<pc, prekeys, manager, attempt, server>>
  BY WriteCases DEF AccountInv, Typed
<1>1. /\ pc \in Renewing => wi \in 1..11 /\ Field = NewWrites[wi]
      /\ pc = "number" => wi = 1 /\ Field = "number" /\ Value = Default
      /\ Field \in Fields /\ Value \in {None, Default} /\ Value \in Values
  BY <1>0, WritesFact, BoundsAssumption DEF AccountInv, Typed, Renewing, Values, Default
<1>2. /\ Typed' /\ Opened'
      /\ \A f \in Fields : pddb'[f] = pddb[f] \/ (f = Field /\ ~IsSet(pddb'[f]))
      /\ \A f \in stale : f \in stale' \/ ~IsSet(pddb'[f])
      /\ failures' = 0 => failures = 0
      /\ (wi' = wi /\ op' # "delete") \/ (wi' = wi + 1 /\ op' = "delete")
      /\ op = "delete" => ~IsSet(pddb'[Field]) \/ Field \in stale'
  BY <1>1, WriteEffect DEF AccountInv, IsSet
<1>3. \A f \in Fields : Cleared(f) => ~IsSet(pddb'[f]) \/ f \in stale'
  BY <1>2 DEF Cleared
<1>4. /\ OnDisk' \subseteq OnDisk /\ OnDisk' \ stale' \subseteq OnDisk \ stale
      /\ \A f \in Fields : IsSet(pddb'[f]) => pddb'[f] = pddb[f]
  BY <1>2 DEF OnDisk
<1>5. pc \in Renewing =>
        \A i \in 1..11 : i < wi' \/ (i = wi' /\ op' # "delete") => Cleared(NewWrites[i])'
  <2> SUFFICES ASSUME pc \in Renewing, NEW i \in 1..11, i < wi' \/ (i = wi' /\ op' # "delete")
               PROVE  ~IsSet(pddb'[NewWrites[i]]) \/ NewWrites[i] \in stale'
    BY DEF Cleared
  <2>1. i < wi \/ i = wi
    BY <1>1, <1>2
  <2>2. CASE i < wi \/ op # "delete"
    <3>1. Cleared(NewWrites[i])
      BY <2>1, <2>2 DEF AccountInv, Progress
    <3> QED BY <3>1, <1>3, NewWritesFact
  <2>3. CASE i = wi /\ op = "delete"
    BY <2>3, <1>1, <1>2
  <2> QED BY <2>1, <2>2, <2>3
<1>6. failures' = 0 => ~IsSet(pddb'["registered"])
  BY <1>2, <1>4, FieldsFact DEF AccountInv, Progress
<1>7. Progress'
  BY <1>0, <1>5, <1>6 DEF Progress, Renewing
<1>8. OnlyAcceptedStored' /\ OneLinkOnDisk'
  BY <1>0, <1>4 DEF AccountInv, OnlyAcceptedStored, OneLinkOnDisk, OnDisk
<1>9. LoadedIsOnDisk' /\ manager' = None
  BY <1>0 DEF AccountInv, LoadedIsOnDisk, Renewing
<1>10. Numbering'
  <2> SUFFICES ASSUME pc = "number", mem' # None
               PROVE  /\ mem' \in [Fields -> Values]
                      /\ \A f \in Fields : mem'[f] # pddb'[f] =>
                           /\ mem'[f] = None \/ f = "number"
                           /\ failures' = 0 => f = "number" /\ op' # "delete" /\ wi' = 1
    BY <1>0 DEF Numbering
  <2>1. wi = 1 /\ Field = "number" /\ Value = Default /\ Field \in Cached
    BY <1>1, FieldsFact DEF Cached, Unread
  <2>2. /\ mem # None
        /\ mem' = mem \/ mem' = [mem EXCEPT !["number"] = Default]
        /\ wi' # wi => mem' = [mem EXCEPT !["number"] = Default]
        /\ wi' = wi => mem' = mem
    BY <2>1, WriteCases DEF Follows
  <2>3. mem \in [Fields -> Values] /\ \A f \in Fields : mem[f] # pddb[f] =>
          /\ mem[f] = None \/ f = "number"
          /\ failures = 0 => f = "number" /\ op # "delete" /\ wi = 1
    BY <2>2 DEF AccountInv, Numbering
  <2>4. mem' \in [Fields -> Values]
    <3> HIDE DEF Values
    <3> QED BY <2>1, <2>2, <2>3, <1>1
  <2>5. ASSUME NEW f \in Fields, mem'[f] # pddb'[f], f # "number"
        PROVE  mem'[f] = None /\ failures' # 0
    <3>1. mem'[f] = mem[f] /\ pddb'[f] = pddb[f]
      BY <2>1, <2>2, <2>3, <2>5, <1>2
    <3> QED BY <3>1, <2>3, <2>5, <1>2
  <2>6. failures' = 0 /\ mem'["number"] # pddb'["number"] => op' # "delete" /\ wi' = 1
    <3> SUFFICES ASSUME failures' = 0, wi' # wi
                 PROVE  mem'["number"] = pddb'["number"]
      BY <2>1, <1>2
    <3>1. pddb'["number"] = Default
      BY <2>1, <1>1, WriteEffect DEF AccountInv
    <3>2. mem'["number"] = Default
      BY <2>1, <2>2, <2>3, <1>1
    <3> QED BY <3>1, <3>2
  <2> QED BY <2>4, <2>5, <2>6
<1> QED BY <1>0, <1>2, <1>6, <1>7, <1>8, <1>9, <1>10 DEF AccountInv, Flagged, FlagIsLast

\* In the saves of Account::link what gets to the disk is of this attempt.
LEMMA SaveWrite ==
  ASSUME AccountInv, SetDelete \/ SetCreate \/ SetWrite, pc = "save"
  PROVE  AccountInv'
<1>0. wi \in Nat /\ Writing /\ UNCHANGED <<pc, prekeys, manager, attempt, server>>
  BY WriteCases DEF AccountInv, Typed
<1>1. /\ wi \in 1..12 /\ Field = LinkWrites[wi] /\ Value = attempt
      /\ Field \in Fields \ {"host"} /\ Value \in Values
  BY <1>0, WritesFact, LinkWritesFact DEF AccountInv, Typed, Values
<1>2. /\ Typed' /\ Opened'
      /\ \A f \in Fields : pddb'[f] = pddb[f]
                           \/ (f = Field /\ (~IsSet(pddb'[f]) \/ pddb'[f] = attempt))
      /\ \A f \in stale : f \in stale' \/ ~IsSet(pddb'[f])
      /\ failures' = 0 => failures = 0
      /\ (wi' = wi /\ op' # "delete") \/ (wi' = wi + 1 /\ op' = "delete")
      /\ wi' # wi /\ failures' = 0 => pddb'[Field] = attempt
  BY <1>1, WriteEffect DEF AccountInv, IsSet
<1>3. attempt \in server /\ \A f \in OnDisk' \ stale' : pddb'[f] = attempt
  BY <1>2 DEF OnDisk, AccountInv, Progress
<1>4. OnlyAcceptedStored' /\ OneLinkOnDisk'
  BY <1>0, <1>2, <1>3 DEF AccountInv, OnlyAcceptedStored, OneLinkOnDisk
<1>5. pddb'["host"] = pddb["host"] /\ pddb["host"] \notin {None, Empty}
  BY <1>1, <1>2, FieldsFact DEF AccountInv, Progress
<1>6. wi' <= 12 /\ failures' = 0 => ~IsSet(pddb'["registered"])
  <2> SUFFICES ASSUME wi' <= 12, failures' = 0 PROVE ~IsSet(pddb'["registered"])
    OBVIOUS
  <2>1. ~IsSet(pddb["registered"]) /\ failures = 0
    BY <1>1, <1>2 DEF AccountInv, Progress
  <2>2. CASE wi' # wi
    <3>1. Field # "registered"
      BY <2>2, <1>1, <1>2, LinkWritesFact
    <3> QED BY <2>1, <3>1, <1>2, FieldsFact
  <2>3. CASE wi' = wi
    <3>1. Deletes \/ Creates
      BY <2>1, <2>3, <1>1, <1>2, WriteCases DEF Puts, Loses
    <3>2. \A f \in Fields : pddb'[f] = pddb[f] \/ pddb'[f] \in {None, Empty}
      BY <3>1, <1>1 DEF Deletes, Creates, AccountInv, Typed
    <3> QED BY <2>1, <3>2, FieldsFact DEF IsSet
  <2> QED BY <2>2, <2>3
<1>7. failures' = 0 =>
        \A i \in 1..12 : i < wi' => LinkWrites[i] = "aep" \/ pddb'[LinkWrites[i]] = attempt
  <2> SUFFICES ASSUME failures' = 0, NEW i \in 1..12, i < wi', LinkWrites[i] # "aep"
               PROVE  pddb'[LinkWrites[i]] = attempt
    OBVIOUS
  <2>1. CASE i < wi
    <3>1. pddb[LinkWrites[i]] = attempt
      BY <2>1, <1>2 DEF AccountInv, Progress
    <3>2. LinkWrites[i] # Field /\ LinkWrites[i] \in Fields
      BY <2>1, <1>1, LinkWritesFact
    <3> QED BY <3>1, <3>2, <1>2
  <2>2. CASE ~(i < wi)
    BY <2>2, <1>1, <1>2
  <2> QED BY <2>1, <2>2
<1>8. Progress'
  BY <1>0, <1>3, <1>5, <1>6, <1>7 DEF Progress, Renewing
<1>9. FlagIsLast'
  <2> SUFFICES ASSUME IsSet(pddb'["registered"]), failures' = 0, NEW f \in Rng(LinkWrites) \ {"aep"}
               PROVE  pddb'[f] = pddb'["registered"]
    BY DEF FlagIsLast
  <2>1. \A i \in 1..12 : i < wi'
    BY <1>2, <1>6 DEF Typed
  <2>2. PICK i \in 1..12 : LinkWrites[i] = f
    BY LinkWritesFact
  <2>3. PICK j \in 1..12 : LinkWrites[j] = "registered"
    BY LinkWritesFact, FieldsFact
  <2> QED BY <2>1, <2>2, <2>3, <1>7
<1>10. Numbering' /\ LoadedIsOnDisk' /\ manager' = None
  BY <1>0 DEF AccountInv, Numbering, LoadedIsOnDisk
<1> QED BY <1>0, <1>2, <1>4, <1>5, <1>8, <1>9, <1>10 DEF AccountInv, Flagged

\* A message without an account entropy pool.
LEMMA SkipStep ==
  ASSUME AccountInv, SkipAep
  PROVE  AccountInv'
<1>1. /\ UNCHANGED <<pc, op, pddb, prekeys, mem, manager, attempt, server, failures, stale>>
      /\ pc = "save" /\ op = "delete" /\ wi' = wi + 1 /\ Writing /\ Field = "aep"
  BY DEF SkipAep
<1>2. wi \in 1..12 /\ LinkWrites[wi] = "aep"
  BY <1>1, WritesFact DEF AccountInv, Typed
<1>3. \A i \in 1..12 : i < wi' => i < wi \/ LinkWrites[i] = "aep"
  BY <1>1, <1>2
<1>4. Progress'
  BY <1>1, <1>2, <1>3 DEF AccountInv, Progress, Renewing, OnDisk
<1>5. Typed' /\ Opened'
  BY <1>1, <1>2 DEF AccountInv, Typed, Opened
<1> QED BY <1>1, <1>4, <1>5 DEF AccountInv, Flagged, Numbering, OnlyAcceptedStored, OneLinkOnDisk,
  FlagIsLast, LoadedIsOnDisk, OnDisk

-----------------------------------------------------------------------------
(* The other steps.                                                         *)

\* What Account::read sees is what is on disk, but for a field it missed.
LEMMA ReadFact ==
  ASSUME Typed, NEW d, ReadAs(d)
  PROVE  /\ d \in [Fields -> Values] /\ failures' \in Nat
         /\ \A f \in Fields : d[f] # pddb[f] => d[f] = None
         /\ failures' = 0 => failures = 0 /\ d = pddb
         /\ failures' # failures => failures' <= MaxFailures
<1>1. pddb \in [Fields -> Values] /\ None \in Values /\ failures \in Nat
  BY DEF Typed, Values
<1>2. d = pddb \/ (failures < MaxFailures /\ \E f \in Fields : d = [pddb EXCEPT ![f] = None])
  BY DEF ReadAs, Views
<1>3. d \in [Fields -> Values] /\ \A f \in Fields : d[f] # pddb[f] => d[f] = None
  <2> HIDE DEF Values
  <2> QED BY <1>1, <1>2
<1>4. failures' = failures + IF d = pddb THEN 0 ELSE 1
  BY DEF ReadAs
<1>5. CASE d = pddb
  BY <1>1, <1>3, <1>4, <1>5
<1>6. CASE d # pddb
  BY <1>1, <1>2, <1>3, <1>4, <1>6, BoundsAssumption
<1> QED BY <1>5, <1>6

\* An account with the flag, and no call failed, is registered: no setup
\* starts on it.
LEMMA FlaggedIsRegistered ==
  ASSUME AccountInv, IsSet(pddb["registered"]), failures = 0
  PROVE  Registered(pddb)
<1>1. \A f \in Required : pddb[f] \notin {None, Empty}
  <2>1. \A f \in Required \ {"host"} : pddb[f] = pddb["registered"]
    BY FieldsFact DEF AccountInv, FlagIsLast, Required, Defaulted
  <2> QED BY <2>1 DEF AccountInv, Flagged, IsSet
<1> QED BY <1>1 DEF Registered, Readable, Complete, Parses, IsRegistered

\* The account that is loaded is what was read of the disk.
Loaded(m, n) ==
  /\ n = 0 => m = pddb
  /\ \A f \in Fields : m[f] # pddb[f] => m[f] = None \/ f = "number"

\* A step that leaves the disk alone, and goes where Progress holds.
LEMMA DiskKept ==
  ASSUME AccountInv, UNCHANGED <<pddb, attempt, stale>>, server \subseteq server',
         prekeys' = prekeys, wi' \in Nat \ {0}, failures' \in Nat, failures' = 0 => failures = 0,
         Progress', op' = "delete", Numbering',
         manager' # None => pc' = "idle" /\ \A m : m = manager' => \A n : n = failures' => Loaded(m, n)
  PROVE  AccountInv'
<1>1. LoadedIsOnDisk'
  BY DEF LoadedIsOnDisk, Loaded
<1> QED BY <1>1 DEF AccountInv, Typed, Opened, Flagged, OnlyAcceptedStored, OneLinkOnDisk, FlagIsLast,
  OnDisk

LEMMA WipeStep ==
  ASSUME AccountInv, GiveUp("provision"), Wipe, UNCHANGED <<prekeys, manager, attempt, server, failures>>
  PROVE  AccountInv'
<1>1. pc = "provision" /\ pc' = "idle" /\ wi' = 1 /\ op' = "delete" /\ manager = None
  BY DEF GiveUp, Goto, AccountInv
<1>2. CASE UNCHANGED <<pddb, stale>>
  <2>1. Progress' /\ Numbering'
    BY <1>1 DEF Progress, Numbering, Renewing
  <2> QED BY <1>1, <1>2, <2>1, DiskKept DEF AccountInv, Typed
<1>3. CASE pddb' = [f \in Fields |-> None] /\ stale' = {}
  <2>1. \A f \in Fields : pddb'[f] = None /\ ~IsSet(pddb'[f])
    BY <1>3 DEF IsSet
  <2>2. pddb' \in [Fields -> Values]
    BY <1>3 DEF Values
  <2>3. OnDisk' = {} /\ ~IsSet(pddb'["registered"])
    BY <2>1, FieldsFact DEF OnDisk
  <2> QED BY <1>1, <1>3, <2>1, <2>2, <2>3 DEF AccountInv, Typed, Progress, Opened, Renewing, Flagged,
    Numbering, OnlyAcceptedStored, OneLinkOnDisk, FlagIsLast, LoadedIsOnDisk
<1> QED BY <1>2, <1>3 DEF Wipe

LEMMA NextAccount ==
  ASSUME AccountInv, [Next]_vars
  PROVE  AccountInv'
<1> USE DEF Renewing
<1>0. wi \in Nat /\ failures \in Nat /\ 1 \in Nat \ {0} /\ Typed
  BY DEF AccountInv, Typed
<1>a. ASSUME NEW d, ReadAs(d)
      PROVE  /\ failures' \in Nat /\ (failures' = 0 => failures = 0)
             /\ \A m : m = d => \A n : n = failures' => Loaded(m, n)
  BY <1>0, <1>a, ReadFact DEF Loaded
<1>1. CASE Boot
  <2>1. PICK d \in Views : ReadAs(d) /\ manager' = IF Registered(d) THEN d ELSE None
    BY <1>1 DEF Boot
  <2>2. Progress' /\ Numbering'
    BY <1>1 DEF Boot, Goto, Progress, Numbering
  <2>3. /\ failures' \in Nat /\ (failures' = 0 => failures = 0)
        /\ manager' # None => \A m : m = manager' => \A n : n = failures' => Loaded(m, n)
    BY <1>a, <2>1
  <2> QED BY <1>1, <2>2, <2>3, DiskKept DEF Boot, Goto
<1>2. CASE Crash
  <2>1. Progress' /\ Numbering'
    BY <1>2 DEF Crash, Progress, Numbering
  <2> QED BY <1>0, <1>2, <2>1, DiskKept DEF Crash
<1>3. CASE Connect
  <2>1. PICK d \in Views :
          /\ ReadAs(d)
          /\ \/ Registered(d) /\ manager' = d /\ UNCHANGED <<pc, wi, op>>
             \/ /\ ~Registered(d) /\ UNCHANGED manager
                /\ Goto("idle", "new") \/ Goto("idle", "newRegister")
    BY <1>3 DEF Connect
  <2>2. CASE Registered(d) /\ manager' = d /\ UNCHANGED <<pc, wi, op>>
    <3>1. pc = "idle" /\ UNCHANGED <<pddb, prekeys, mem, attempt, server, stale>>
      BY <1>3 DEF Connect
    <3>2. Progress' /\ Numbering'
      BY <2>2, <3>1 DEF Progress, Numbering
    <3>3. Typed' /\ Opened'
      BY <1>0, <1>a, <2>1, <2>2, <3>1, ReadFact DEF AccountInv, Typed, Opened, Writing
    <3>4. LoadedIsOnDisk'
      BY <1>a, <2>1, <2>2, <3>1 DEF Loaded, LoadedIsOnDisk
    <3>5. failures' = 0 => failures = 0
      BY <1>a, <2>1
    <3> QED BY <2>2, <3>1, <3>2, <3>3, <3>4, <3>5 DEF AccountInv, Flagged, OnlyAcceptedStored,
      OneLinkOnDisk, FlagIsLast, OnDisk
  <2>3. CASE ~Registered(d) /\ (Goto("idle", "new") \/ Goto("idle", "newRegister")) /\ UNCHANGED manager
    <3>1. failures' = 0 => ~IsSet(pddb'["registered"])
      BY <1>0, <1>3, <2>1, <2>3, ReadFact, FlaggedIsRegistered DEF Connect
    <3>2. Progress' /\ Numbering'
      BY <2>3, <3>1 DEF Goto, Progress, Numbering
    <3>3. failures' \in Nat /\ (failures' = 0 => failures = 0)
      BY <1>a, <2>1
    <3>4. /\ UNCHANGED <<pddb, prekeys, attempt, server, stale>> /\ manager' = None
          /\ wi' = 1 /\ op' = "delete"
      BY <1>3, <2>3 DEF Connect, Goto
    <3> QED BY <3>2, <3>3, <3>4, DiskKept
  <2> QED BY <2>1, <2>2, <2>3
<1>4. CASE SetDelete \/ SetCreate \/ SetWrite
  <2>1. pc \in Renewing \union {"number"} \/ pc = "save"
    BY <1>0, <1>4, WriteCases DEF Writing
  <2> QED BY <1>4, <2>1, NewWrite, SaveWrite
<1>5. CASE SkipAep
  BY <1>5, SkipStep
<1>6. CASE NewDone
  <2>1. PICK d \in Views :
          /\ ReadAs(d)
          /\ \/ ~Complete(d) /\ (GiveUp("new") \/ GiveUp("newRegister"))
             \/ Readable(d) /\ Goto("new", "provision") /\ mem' = d
             \/ Readable(d) /\ Goto("newRegister", "number") /\ mem' = d
    BY <1>6 DEF NewDone
  <2>2. /\ pc \in Renewing /\ manager = None /\ wi > 11 /\ wi' = 1 /\ op' = "delete"
        /\ UNCHANGED <<pddb, prekeys, manager, attempt, server, stale>>
    <3>1. /\ pc \in Renewing /\ wi > 11
          /\ UNCHANGED <<pddb, prekeys, manager, attempt, server, stale>>
      BY <1>6, FieldsFact DEF NewDone
    <3>2. wi' = 1 /\ op' = "delete"
      BY <2>1 DEF Goto, GiveUp
    <3> QED BY <3>1, <3>2 DEF AccountInv
  <2>3. failures' \in Nat /\ (failures' = 0 => failures = 0)
    BY <1>a, <2>1
  <2>4. CASE pc' = "idle"
    <3>1. Progress' /\ Numbering'
      BY <2>4 DEF Progress, Numbering
    <3> QED BY <2>2, <2>3, <2>4, <3>1, DiskKept
  <2>5. CASE Readable(d) /\ Goto("new", "provision") /\ mem' = d
    <3>1. OnDisk \subseteq stale
      <4>1. \A i \in 1..11 : Cleared(NewWrites[i])
        BY <2>2, <1>0 DEF AccountInv, Progress
      <4> QED BY <4>1, NewWritesFact DEF OnDisk, Cleared
    <3>2. pddb["host"] \notin {None, Empty}
      BY <1>0, <2>1, <2>5, ReadFact, FieldsFact DEF Readable, Complete, Parses, Required, Defaulted
    <3>3. Progress' /\ Numbering'
      BY <2>2, <2>5, <3>1, <3>2 DEF Goto, Progress, Numbering, OnDisk
    <3> QED BY <2>2, <2>3, <2>5, <3>3, DiskKept
  <2>6. CASE Readable(d) /\ Goto("newRegister", "number") /\ mem' = d
    <3>1. failures' = 0 => ~IsSet(pddb["registered"])
      BY <2>2, <2>3 DEF AccountInv, Progress
    <3>2. Progress'
      BY <2>2, <2>6, <3>1 DEF Goto, Progress
    <3>3. Numbering'
      BY <1>0, <2>1, <2>2, <2>6, ReadFact DEF Goto, Numbering
    <3> QED BY <2>2, <2>3, <2>6, <3>2, <3>3, DiskKept
  <2> QED BY <2>1, <2>4, <2>5, <2>6 DEF GiveUp, Goto
<1>7. CASE NumberDone
  <2>1. /\ pc = "number" /\ pc' = "idle" /\ wi > 1 /\ wi' = 1 /\ op' = "delete" /\ manager' = mem
        /\ UNCHANGED <<pddb, prekeys, attempt, server, failures, stale>>
    <3>1. Writes = <<"number">>
      BY <1>7 DEF NumberDone, GiveUp, Goto, Writes
    <3> QED BY <1>7, <3>1 DEF NumberDone, GiveUp, Goto
  <2>2. mem # None => \A n : n = failures => Loaded(mem, n)
    <3> SUFFICES ASSUME mem # None PROVE Loaded(mem, failures)
      OBVIOUS
    <3>1. mem \in [Fields -> Values] /\ \A f \in Fields : mem[f] # pddb[f] =>
            (mem[f] = None \/ f = "number") /\ failures # 0
      BY <2>1 DEF AccountInv, Numbering
    <3>2. failures = 0 => mem = pddb
      BY <1>0, <3>1 DEF Typed
    <3> QED BY <3>1, <3>2 DEF Loaded
  <2>3. Progress' /\ Numbering'
    BY <2>1 DEF Progress, Numbering
  <2>4. manager' # None => pc' = "idle" /\ \A m : m = manager' => \A n : n = failures' => Loaded(m, n)
    BY <2>1, <2>2
  <2> QED BY <1>0, <2>1, <2>3, <2>4, DiskKept
<1>8. CASE Provision
  <2>1. CASE Goto("provision", "put") /\ UNCHANGED <<pddb, mem, stale>>
    <3>1. Progress' /\ Numbering'
      BY <1>8, <2>1 DEF Provision, Goto, AccountInv, Progress, Numbering, OnDisk
    <3> QED BY <1>0, <1>8, <2>1, <3>1, DiskKept DEF Provision, Goto, AccountInv
  <2>2. CASE GiveUp("provision") /\ Wipe
    BY <1>8, <2>2, WipeStep DEF Provision
  <2> QED BY <1>8, <2>1, <2>2 DEF Provision
<1>9. CASE Put
  <2>1. /\ server \subseteq server' /\ attempt' = attempt + 1 /\ attempt' \in 0..MaxAttempts
        /\ UNCHANGED <<pddb, prekeys, manager, failures, stale>> /\ pc = "put" /\ wi' = 1 /\ op' = "delete"
        /\ (pc' = "idle" \/ (pc' = "save" /\ attempt' \in server')) /\ manager = None
    BY <1>9, BoundsAssumption DEF Put, GiveUp, Goto, AccountInv, Typed
  <2>2. OnDisk' \subseteq stale' /\ (failures = 0 => ~IsSet(pddb["registered"]))
    <3>1. OnDisk' = OnDisk /\ OnDisk \subseteq stale
      BY <2>1 DEF AccountInv, Progress, OnDisk
    <3>2. failures = 0 => OnDisk = {}
      BY <1>0, <3>1 DEF Typed
    <3> QED BY <2>1, <3>1, <3>2, FieldsFact DEF OnDisk, Unread
  <2>3. Progress' /\ Numbering'
    BY <2>1, <2>2 DEF Progress, Numbering, AccountInv
  <2>4. OnlyAcceptedStored' /\ OneLinkOnDisk' /\ LoadedIsOnDisk'
    BY <2>1, <2>2 DEF OnlyAcceptedStored, OneLinkOnDisk, LoadedIsOnDisk, AccountInv
  <2>5. Typed' /\ Opened'
    BY <1>0, <2>1 DEF Typed, Opened
  <2> QED BY <2>1, <2>3, <2>4, <2>5 DEF AccountInv, Flagged, FlagIsLast
<1>10. CASE SaveDone
  <2>1. Progress' /\ Numbering'
    BY <1>10 DEF SaveDone, Goto, AccountInv, Progress, Numbering
  <2> QED BY <1>0, <1>10, <2>1, DiskKept DEF SaveDone, Goto, AccountInv
<1>11. CASE SavePreKey
  <2>1. /\ UNCHANGED <<pddb, manager, attempt, server, stale>> /\ pc = "prekeys" /\ manager = None
        /\ wi' \in Nat \ {0} /\ failures' \in Nat /\ pc' \in {"prekeys", "idle"}
        /\ failures' = 0 => failures = 0
    BY <1>11, <1>0 DEF SavePreKey, GiveUp, Goto, AccountInv, Typed
  <2>2. \A r \in prekeys' : r \in prekeys \/ r[2] = attempt
    BY <1>11 DEF SavePreKey
  <2>3. attempt \in server
    BY <2>1 DEF AccountInv, Progress
  <2>4. OnlyAcceptedStored' /\ OneLinkOnDisk' /\ LoadedIsOnDisk'
    BY <2>1, <2>2, <2>3 DEF OnlyAcceptedStored, OneLinkOnDisk, LoadedIsOnDisk, OnDisk, AccountInv
  <2>5. Progress' /\ Numbering' /\ Opened'
    BY <2>1, <2>3 DEF AccountInv, Progress, Numbering, Opened, Writing
  <2> QED BY <2>1, <2>4, <2>5 DEF AccountInv, Typed, Flagged, FlagIsLast
<1>12. CASE LinkDone
  <2>1. PICK d \in Views : ReadAs(d) /\ manager' = IF Readable(d) THEN d ELSE None
    BY <1>12 DEF LinkDone
  <2>2. Progress' /\ Numbering'
    BY <1>12 DEF LinkDone, GiveUp, Goto, Progress, Numbering
  <2>3. /\ failures' \in Nat /\ (failures' = 0 => failures = 0)
        /\ manager' # None => \A m : m = manager' => \A n : n = failures' => Loaded(m, n)
    BY <1>a, <2>1
  <2> QED BY <1>12, <2>2, <2>3, DiskKept DEF LinkDone, GiveUp, Goto
<1>13. CASE BootPanics \/ UNCHANGED vars
  <2>1. UNCHANGED vars
    BY <1>13 DEF BootPanics
  <2>2. Typed' /\ Opened'
    BY <2>1 DEF vars, AccountInv, Typed, Opened, Writing, Field, Writes
  <2>3. Progress' /\ Numbering'
    BY <2>1 DEF vars, AccountInv, Progress, Numbering, Cleared, OnDisk
  <2> QED BY <2>1, <2>2, <2>3 DEF vars, AccountInv, Flagged, OnlyAcceptedStored, OneLinkOnDisk,
    FlagIsLast, LoadedIsOnDisk, OnDisk
<1> QED BY <1>1, <1>2, <1>3, <1>4, <1>5, <1>6, <1>7, <1>8, <1>9, <1>10, <1>11, <1>12, <1>13 DEF Next

-----------------------------------------------------------------------------
(* Types.  The struct that is set up starts as an account that could be     *)
(* read back, and set only ever replaces a field of it by this attempt.     *)

MemTyped == mem # None => mem \in [Fields -> Values] /\ Readable(mem)
ManagerTyped == manager # None => manager \in [Fields -> Values] /\ Readable(manager)

Control ==
  /\ pc \in {"off", "idle", "new", "newRegister", "number", "provision", "put", "save", "prekeys"}
  /\ wi \in 1..13
  /\ op \in {"delete", "create", "write"}
  /\ failures \in 0..MaxFailures
  /\ server \subseteq 1..MaxAttempts
  /\ pc \in {"off", "idle"} \union Renewing => mem = None

AllTyped ==
  /\ Control /\ MemTyped /\ ManagerTyped
  /\ prekeys \subseteq Rng(PreKeyKinds) \X (1..MaxAttempts)

LEMMA InitAllTyped == Init => AllTyped
  BY BoundsAssumption DEF Init, AllTyped, Control, MemTyped, ManagerTyped, Renewing

LEMMA KindsFact == Len(PreKeyKinds) = 4 /\ \A i \in 1..4 : PreKeyKinds[i] \in Rng(PreKeyKinds)
  BY DEF PreKeyKinds, Rng

\* A field set to a value that is there leaves an account readable.
LEMMA StaysReadable ==
  ASSUME NEW d \in [Fields -> Values], Readable(d), NEW f \in Fields, NEW v \in 0..MaxAttempts
  PROVE  [d EXCEPT ![f] = v] \in [Fields -> Values] /\ Readable([d EXCEPT ![f] = v])
<1>1. v \in Values /\ v # None /\ v # Empty
  BY ValuesAssumption DEF Values
<1>2. [d EXCEPT ![f] = v] \in [Fields -> Values]
  <2> HIDE DEF Values
  <2> QED BY <1>1
<1>3. \A g \in Required : g \in Fields /\ d[g] \notin {None, Empty}
  BY FieldsFact DEF Required, Defaulted, Readable, Complete, Parses
<1>4. \A g \in Required : [d EXCEPT ![f] = v][g] \notin {None, Empty}
  BY <1>1, <1>3
<1> QED BY <1>2, <1>4 DEF Readable, Complete, Parses

LEMMA WriteTyped ==
  ASSUME AccountInv, AllTyped, SetDelete \/ SetCreate \/ SetWrite
  PROVE  AllTyped'
<1>1. /\ Writing /\ UNCHANGED <<pc, prekeys, manager, attempt, server>> /\ Follows
      /\ Deletes \/ Creates \/ Puts \/ Loses
  BY WriteCases DEF AccountInv, Typed
<1>2. wi \in 1..12 /\ Field \in Fields
  BY <1>1, WritesFact DEF AccountInv, Typed, Writing
<1>3. op' \in {"delete", "create", "write"} /\ wi' \in 1..13 /\ failures' \in 0..MaxFailures
  BY <1>1, <1>2, BoundsAssumption DEF Deletes, Creates, Puts, Loses, AllTyped, Control
<1>4. MemTyped'
  <2>1. CASE mem' = mem
    BY <2>1 DEF MemTyped, AllTyped, Readable, Complete, Parses
  <2>2. CASE mem # None /\ mem' = [mem EXCEPT ![Field] = Value]
    <3>1. pc \in {"number", "save"}
      BY <2>2, <1>1 DEF AllTyped, Control, Writing, Renewing
    <3>2. Value \in 0..MaxAttempts
      BY <3>1, <1>1, WritesFact, BoundsAssumption DEF Default, AccountInv, Typed
    <3>3. mem \in [Fields -> Values] /\ Readable(mem)
      BY <2>2 DEF AllTyped, MemTyped
    <3> QED BY <2>2, <3>2, <3>3, <1>2, StaysReadable DEF MemTyped
  <2> QED BY <1>1, <2>1, <2>2 DEF Follows
<1>5. pc \in {"off", "idle"} \union Renewing => mem' = None
  BY <1>1 DEF AllTyped, Control, Follows
<1> QED BY <1>1, <1>3, <1>4, <1>5 DEF AllTyped, Control, ManagerTyped

\* The steps that leave the struct alone, replace it or drop it.
LEMMA NextAllTyped ==
  ASSUME AccountInv, AllTyped, [Next]_vars
  PROVE  AllTyped'
<1> USE DEF AllTyped, Control, Goto, GiveUp, Renewing
<1>0. Typed
  BY DEF AccountInv
<1>a. ASSUME NEW d, ReadAs(d)
      PROVE  d \in [Fields -> Values] /\ failures' \in 0..MaxFailures
  BY <1>0, <1>a, ReadFact, BoundsAssumption
<1>1. CASE Boot
  BY <1>a, <1>1 DEF Boot, MemTyped, ManagerTyped, Registered
<1>2. CASE Crash
  BY <1>2 DEF Crash, MemTyped, ManagerTyped
<1>3. CASE Connect
  BY <1>a, <1>3 DEF Connect, MemTyped, ManagerTyped, Registered
<1>4. CASE SetDelete \/ SetCreate \/ SetWrite
  BY <1>4, WriteTyped
<1>5. CASE NewDone
  BY <1>a, <1>5 DEF NewDone, MemTyped, ManagerTyped
<1>6. CASE Provision
  BY <1>6 DEF Provision, MemTyped, ManagerTyped
<1>7. CASE Put
  <2>1. server' \subseteq 1..MaxAttempts
    BY <1>7, BoundsAssumption DEF Put, AccountInv, Typed
  <2> QED BY <1>7, <2>1 DEF Put, MemTyped, ManagerTyped
<1>8. CASE SaveDone
  BY <1>8 DEF SaveDone, MemTyped, ManagerTyped
<1>9. CASE SavePreKey
  <2>1. attempt \in 1..MaxAttempts
    BY <1>9 DEF SavePreKey, AccountInv, Progress
  <2>2. prekeys' \subseteq Rng(PreKeyKinds) \X (1..MaxAttempts)
    BY <1>9, <2>1, KindsFact DEF SavePreKey
  <2>3. wi' \in 1..13 /\ failures' \in 0..MaxFailures
    BY <1>9, KindsFact, BoundsAssumption DEF SavePreKey
  <2> QED BY <1>9, <2>2, <2>3 DEF SavePreKey, MemTyped, ManagerTyped
<1>10. CASE LinkDone
  BY <1>a, <1>10 DEF LinkDone, MemTyped, ManagerTyped
<1>11. CASE BootPanics \/ UNCHANGED vars
  BY <1>11 DEF BootPanics, vars, MemTyped, ManagerTyped
<1>12. CASE SkipAep
  <2>1. wi \in 1..12 /\ pc = "save"
    BY <1>12, WritesFact DEF SkipAep, AccountInv, Typed
  <2> QED BY <1>12, <2>1 DEF SkipAep, MemTyped, ManagerTyped
<1>13. CASE NumberDone
  BY <1>13 DEF NumberDone, MemTyped, ManagerTyped
<1> QED BY <1>1, <1>2, <1>3, <1>4, <1>5, <1>6, <1>7, <1>8, <1>9, <1>10, <1>11, <1>12, <1>13 DEF Next

-----------------------------------------------------------------------------
(* The theorems.                                                            *)

THEOREM AccountCorrect == Spec => []AccountInv
<1> QED BY InitAccount, NextAccount, PTL DEF Spec

\* Every variable keeps its type; above all, the account a manager is given
\* and the one that is being set up have all their required fields, so that
\* no later read of a field can miss it (Account::read, Account::link).
THEOREM AccountTypes == Spec => []TypeOK
<1>1. AccountInv /\ AllTyped => TypeOK
  BY DEF AccountInv, Typed, AllTyped, Control, MemTyped, ManagerTyped, TypeOK
<1> QED BY <1>1, InitAllTyped, NextAllTyped, AccountCorrect, PTL DEF Spec

\* Nothing is stored of a link the server did not accept (Account::link).
THEOREM AcceptedStored == Spec => []OnlyAcceptedStored
<1>1. AccountInv => OnlyAcceptedStored
  BY DEF AccountInv
<1> QED BY <1>1, AccountCorrect, PTL

\* Credentials of two links are never mixed on disk, in the keys that
\* Account::new resets and whose delete did not fail.
THEOREM LinksNotMixed == Spec => []OneLinkOnDisk
<1>1. AccountInv => OneLinkOnDisk
  BY DEF AccountInv
<1> QED BY <1>1, AccountCorrect, PTL

\* As long as no pddb call failed the registered flag vouches for every
\* field each link writes, whatever crashed.
THEOREM FlagVouches == Spec => []FlagIsLast
<1>1. AccountInv => FlagIsLast
  BY DEF AccountInv
<1> QED BY <1>1, AccountCorrect, PTL

\* A manager works on the account that is on disk, but for a field that was
\* not read and a number that was not written (connect, SigChat::new,
\* account_register).
THEOREM ManagerMatchesDisk == Spec => []LoadedIsOnDisk
<1>1. AccountInv => LoadedIsOnDisk
  BY DEF AccountInv, LoadedIsOnDisk
<1> QED BY <1>1, AccountCorrect, PTL

\* The delete after a failed link takes no registration away that
\* Account::new could clear.
THEOREM DeleteIsSafe == Spec => DeleteSparesRegistered
<1>1. AccountInv /\ [Next]_vars =>
        [Registered(pddb) /\ ~Registered(pddb') /\ stale = {} =>
           pc \in {"save", "new", "newRegister"}]_vars
  <2> SUFFICES ASSUME AccountInv, Next, Registered(pddb), ~Registered(pddb'), stale = {}
               PROVE  pc \in {"save", "new", "newRegister"}
    OBVIOUS
  <2>1. pddb' # pddb
    OBVIOUS
  <2>2. CASE SetDelete \/ SetCreate \/ SetWrite
    <3> SUFFICES ASSUME pc = "number" PROVE FALSE
      BY <2>2, WriteCases DEF Writing, AccountInv, Typed
    <3>1. Field = "number" /\ Value \in Values
      BY <2>2, WriteCases, WritesFact, BoundsAssumption DEF AccountInv, Typed, Values, Default
    <3>2. \A f \in Fields \ {"number"} : pddb'[f] = pddb[f]
      BY <2>2, <3>1, WriteEffect DEF AccountInv
    <3>3. Required \union {"registered", "device_id", "aci_service_id", "password"}
            \subseteq Fields \ {"number"}
      BY FieldsFact DEF Required, Defaulted
    <3> QED BY <3>2, <3>3 DEF Registered, IsRegistered, Readable, Complete, Parses
  <2>3. CASE Provision
    <3>1. OnDisk = {} \/ pddb' = pddb
      BY <2>3 DEF Provision, GiveUp, Goto, AccountInv, Progress
    <3>2. OnDisk = {} => ~Registered(pddb)
      BY FieldsFact DEF OnDisk, Unread, Registered, IsRegistered
    <3> QED BY <2>1, <3>1, <3>2
  <2>4. ~(Boot \/ BootPanics \/ Crash \/ Connect \/ SkipAep \/ NewDone \/ NumberDone \/ Put \/ SaveDone
          \/ SavePreKey \/ LinkDone)
    BY <2>1 DEF Boot, BootPanics, Crash, Connect, SkipAep, NewDone, NumberDone, Put, SaveDone, SavePreKey,
      LinkDone, vars
  <2> QED BY <2>2, <2>3, <2>4 DEF Next
<1> QED BY <1>1, AccountCorrect, PTL DEF Spec, DeleteSparesRegistered
=============================================================================
