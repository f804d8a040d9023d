----------------------------- MODULE AccountLink -----------------------------
(***************************************************************************)
(* The Signal account of account.rs: what the pddb dictionary holds, what  *)
(* the Account struct caches, and how setup (lib.rs) builds both, one pddb *)
(* operation at a time, across process crashes and failing writes.  The    *)
(* server and the pddb are modelled from their use; a pddb operation is    *)
(* durable once it returns.                                                *)
(*                                                                         *)
(* Keys that are written together and read together are one field; a value *)
(* is the number of the link attempt that wrote it, Default for what is    *)
(* written outside a link, Empty for a key whose content cannot be parsed  *)
(* (created and never written, or written in part over an older value) and *)
(* None for a key that is absent.                                          *)
(***************************************************************************)
EXTENDS Integers, Sequences

CONSTANTS
  MaxAttempts,  \* bound: link requests that reach the server
  MaxFailures,  \* bound: pddb calls that fail
  Empty, None

ASSUME BoundsAssumption == MaxAttempts \in Nat /\ MaxFailures \in Nat

VARIABLES
  pc,        \* where the main thread is in SigChat::connect and below
  wi,        \* position in the sequence of writes under way
  op,        \* the next pddb call there: "delete", "create" or "write"
  pddb,      \* the account dictionary
  prekeys,   \* the private prekey records saved, with their attempt
  mem,       \* the Account struct that is being set up
  manager,   \* SigChat.manager: the account it was given, or None
  attempt,   \* link requests so far
  server,    \* the attempts whose device the server has linked
  failures,  \* pddb calls that failed so far
  stale      \* fields whose delete failed the last time (history)

vars == <<pc, wi, op, pddb, prekeys, mem, manager, attempt, server, failures,
          stale>>

Default == 0

\* Mutant: Account::new leaves the PNI keys of an earlier attempt.
NewWritesNoPni ==
  <<"aci_identity", "aci_service_id", "device_id", "host", "is_multi_device",
    "number", "password", "profile", "registered", "manifest">>

\* The order of the writes in Account::new and, below, in Account::link.
NewWrites ==
  <<"aci_identity", "aci_service_id", "device_id", "host", "is_multi_device",
    "number", "password", "pni", "profile", "registered", "manifest">>

\* Mutant: the registered flag is written with the credentials.
LinkWritesFlagEarly ==
  <<"password", "device_id", "registered", "aci_identity", "aci_service_id",
    "pni", "is_multi_device", "number", "profile", "aep", "registration_id",
    "manifest">>

\* aep, the account entropy pool, is skipped when the message has none.
LinkWrites ==
  <<"password", "device_id", "aci_identity", "aci_service_id", "pni",
    "is_multi_device", "number", "profile", "aep", "registration_id",
    "manifest", "registered">>

PreKeyKinds == <<"aci_spk", "pni_spk", "aci_kpk", "pni_kpk">>

Rng(s) == {s[i] : i \in DOMAIN s}
Fields == Rng(LinkWrites) \union {"host"}

\* Account::new writes a default for these and only deletes the others.
Defaulted == {"device_id", "host", "is_multi_device", "registered", "manifest"}

\* Account::read is an error when one of these is absent, and panics when
\* one of them cannot be parsed.
Required == Defaulted

\* Account::new resets and Account::read reads all but these.
Unread == {"registration_id", "aep"}

\* The fields whose copy in the struct follows a set.
Cached == Fields \ (Unread \union {"manifest"})

Values == {None, Empty} \union (0..MaxAttempts)

ASSUME ValuesAssumption == None \notin 0..MaxAttempts /\ Empty \notin 0..MaxAttempts

IsSet(v) == v \notin {None, Empty, Default}

Complete(d) == \A f \in Required : d[f] # None
Parses(d) == \A f \in Required : d[f] # Empty
Panics(d) == Complete(d) /\ ~Parses(d)
Readable(d) == Complete(d) /\ Parses(d)

IsRegistered(d) ==
  \/ IsSet(d["registered"])
  \/ IsSet(d["device_id"]) /\ d["aci_service_id"] # None /\ d["password"] # None

\* Account::read followed by is_registered.
Registered(d) == Readable(d) /\ IsRegistered(d)

TypeOK ==
  /\ pc \in {"off", "idle", "new", "newRegister", "number", "provision",
            "put", "save", "prekeys"}
  /\ wi \in 1..13
  /\ op \in {"delete", "create", "write"}
  /\ pddb \in [Fields -> Values]
  /\ prekeys \subseteq Rng(PreKeyKinds) \X (1..MaxAttempts)
  /\ mem # None => mem \in [Fields -> Values] /\ Readable(mem)
  /\ manager # None => manager \in [Fields -> Values] /\ Readable(manager)
  /\ attempt \in 0..MaxAttempts
  /\ server \subseteq 1..MaxAttempts
  /\ failures \in 0..MaxFailures
  /\ stale \subseteq Fields

Init ==
  /\ pc = "off" /\ wi = 1 /\ op = "delete"
  /\ pddb = [f \in Fields |-> None] /\ prekeys = {}
  /\ mem = None /\ manager = None
  /\ attempt = 0 /\ server = {} /\ failures = 0 /\ stale = {}

-----------------------------------------------------------------------------
Goto(from, to) == pc = from /\ pc' = to /\ wi' = 1 /\ op' = "delete"

\* Setup ends without an account.
GiveUp(from) == Goto(from, "idle") /\ mem' = None

\* What Account::read may see: a get that fails is taken for an absent key.
Views ==
  {pddb} \union
  IF failures < MaxFailures
  THEN {[pddb EXCEPT ![f] = None] : f \in Fields \ Unread} ELSE {}

ReadAs(d) == d \in Views /\ failures' = failures + (IF d = pddb THEN 0 ELSE 1)

\* Mutant: the account is read without looking for its required keys.
BootUnchecked ==
  /\ Goto("off", "idle")
  /\ manager' = IF IsRegistered(pddb) THEN pddb ELSE None
  /\ UNCHANGED <<pddb, prekeys, mem, attempt, server, failures, stale>>

\* SigChat::new: a registered account is loaded.
Boot ==
  /\ Goto("off", "idle")
  /\ \E d \in Views :
       /\ ReadAs(d) /\ ~Panics(d)
       /\ manager' = IF Registered(d) THEN d ELSE None
  /\ UNCHANGED <<pddb, prekeys, mem, attempt, server, stale>>

\* The unwraps of Account::read end the process before it is up.
BootPanics == pc = "off" /\ Panics(pddb) /\ UNCHANGED vars

\* The process dies anywhere; only the pddb and the server remain.
Crash ==
  /\ pc # "off" /\ pc' = "off" /\ wi' = 1 /\ op' = "delete"
  /\ mem' = None /\ manager' = None
  /\ UNCHANGED <<pddb, prekeys, attempt, server, failures, stale>>

\* Mutant: connect sets the account up again below a loaded manager.
ConnectAgain ==
  /\ pc = "idle"
  /\ \/ /\ Registered(pddb) /\ manager' = pddb /\ UNCHANGED <<pc, wi, op>>
     \/ Goto("idle", "new") /\ UNCHANGED manager
     \/ Goto("idle", "newRegister") /\ UNCHANGED manager
  /\ UNCHANGED <<pddb, prekeys, mem, attempt, server, failures, stale>>

\* SigChat::connect without a manager: the account is read again, and when
\* it is not registered the user picks what account_setup does (picking
\* neither, or a host that cannot be trusted, changes nothing).
Connect ==
  /\ pc = "idle" /\ manager = None
  /\ \E d \in Views :
       /\ ReadAs(d) /\ ~Panics(d)
       /\ \/ /\ Registered(d)
             /\ manager' = d
             /\ UNCHANGED <<pc, wi, op>>
          \/ /\ ~Registered(d)
             /\ Goto("idle", "new") \/ Goto("idle", "newRegister")
             /\ UNCHANGED manager
  /\ UNCHANGED <<pddb, prekeys, mem, attempt, server, stale>>

-----------------------------------------------------------------------------
(* Writing one field: set deletes the key, then creates and writes it.      *)

Writes == IF pc = "save" THEN LinkWrites
          ELSE IF pc = "number" THEN <<"number">> ELSE NewWrites
Writing ==
  pc \in {"new", "newRegister", "number", "save"} /\ wi <= Len(Writes)
Field == Writes[wi]
Value == IF pc = "save" THEN attempt
         ELSE IF pc = "number" \/ Field \in Defaulted THEN Default ELSE None

\* set returns Ok whatever happened, and the cached copy follows.
SetReturns ==
  /\ wi' = wi + 1 /\ op' = "delete"
  /\ mem' = IF mem # None /\ Field \in Cached
            THEN [mem EXCEPT ![Field] = Value] ELSE mem

\* A call to the pddb that fails is logged, if that.
CallFails == failures < MaxFailures /\ failures' = failures + 1 /\ UNCHANGED pddb

\* The delete of a key that is there may fail.
SetDelete ==
  /\ Writing /\ op = "delete"
  /\ \/ /\ pddb' = [pddb EXCEPT ![Field] = None]
        /\ stale' = stale \ {Field} /\ UNCHANGED failures
     \/ pddb[Field] # None /\ CallFails /\ stale' = stale \union {Field}
  /\ IF Value = None THEN SetReturns
     ELSE op' = "create" /\ UNCHANGED <<wi, mem>>
  /\ UNCHANGED <<pc, prekeys, manager, attempt, server>>

\* The key is opened, and created when it is not there.
SetCreate ==
  /\ Writing /\ op = "create"
  /\ \/ /\ pddb' = [pddb EXCEPT ![Field] = IF @ = None THEN Empty ELSE @]
        /\ op' = "write" /\ UNCHANGED <<wi, mem, failures>>
     \/ CallFails /\ SetReturns
  /\ UNCHANGED <<pc, prekeys, manager, attempt, server, stale>>

\* Over a value that was not deleted the write leaves its tail, if it is the
\* longer one: that reads as the old value, the new one or neither.
SetWrite ==
  /\ Writing /\ op = "write"
  /\ \/ /\ \E v \in {Value} \union
                   IF pddb[Field] = Empty THEN {} ELSE {pddb[Field], Empty} :
             pddb' = [pddb EXCEPT ![Field] = v]
        /\ UNCHANGED failures
     \/ CallFails
  /\ SetReturns
  /\ UNCHANGED <<pc, prekeys, manager, attempt, server, stale>>

\* A ProvisionMessage without an account entropy pool.
SkipAep ==
  /\ pc = "save" /\ Writing /\ Field = "aep" /\ op = "delete"
  /\ wi' = wi + 1
  /\ UNCHANGED <<pc, op, pddb, prekeys, mem, manager, attempt, server, failures,
                 stale>>

-----------------------------------------------------------------------------
(* The steps of account_link, account_register and Account::link.           *)

\* Account::new ends by reading back what it wrote.
NewDone ==
  /\ pc \in {"new", "newRegister"} /\ wi > Len(NewWrites)
  /\ \E d \in Views :
       /\ ReadAs(d) /\ ~Panics(d)
       /\ \/ ~Complete(d) /\ (GiveUp("new") \/ GiveUp("newRegister"))
          \/ Readable(d) /\ Goto("new", "provision") /\ mem' = d
          \/ Readable(d) /\ Goto("newRegister", "number") /\ mem' = d
  /\ UNCHANGED <<pddb, prekeys, manager, attempt, server, stale>>

\* account_register, once set_number has returned, hands the new account to a
\* manager and reports that registration is not implemented.
NumberDone ==
  /\ pc = "number" /\ wi > Len(Writes)
  /\ GiveUp("number")
  /\ manager' = mem
  /\ UNCHANGED <<pddb, prekeys, attempt, server, failures, stale>>

Wipe == \/ UNCHANGED <<pddb, stale>>
        \/ pddb' = [f \in Fields |-> None] /\ stale' = {}

\* Manager::link up to the ProvisionMessage.  Its errors make account_link
\* delete the account (a delete that fails is only logged); those of
\* Account::link before the request do not.
Provision ==
  /\ \/ Goto("provision", "put") /\ UNCHANGED <<pddb, mem, stale>>
     \/ GiveUp("provision") /\ Wipe
  /\ UNCHANGED <<prekeys, manager, attempt, server, failures>>

\* Mutant: what the server did not confirm is saved too.
PutSaveAnyway ==
  /\ attempt < MaxAttempts /\ attempt' = attempt + 1
  /\ server' \in {server, server \union {attempt + 1}}
  /\ Goto("put", "save") /\ UNCHANGED mem
  /\ UNCHANGED <<pddb, prekeys, manager, failures, stale>>

\* PUT /v1/devices/link.  After a 403, with which the server links nothing,
\* the one request is repeated under another login; any other error leaves
\* it open whether the server has linked the device.  Manager::link turns
\* an error into Ok(false), so the account stays as it is.
Put ==
  /\ attempt < MaxAttempts /\ attempt' = attempt + 1
  /\ server' \in {server, server \union {attempt + 1}}
  /\ \/ attempt + 1 \in server' /\ Goto("put", "save") /\ UNCHANGED mem
     \/ GiveUp("put")
  /\ UNCHANGED <<pddb, prekeys, manager, failures, stale>>

SaveDone ==
  /\ wi > Len(LinkWrites)
  /\ Goto("save", "prekeys")
  /\ UNCHANGED <<pddb, prekeys, mem, manager, attempt, server, failures, stale>>

\* Mutant: a failed save is an error of the link, and the account deleted.
SavePreKeyOrDelete ==
  /\ pc = "prekeys" /\ wi <= Len(PreKeyKinds)
  /\ \/ /\ prekeys' = prekeys \union {<<PreKeyKinds[wi], attempt>>}
        /\ wi' = wi + 1
        /\ UNCHANGED <<pc, op, pddb, mem, failures, stale>>
     \/ /\ failures < MaxFailures /\ failures' = failures + 1
        /\ GiveUp("prekeys") /\ Wipe
        /\ UNCHANGED prekeys
  /\ UNCHANGED <<manager, attempt, server>>

\* save_to_pddb, one record at a time; a store that fails is an error of
\* Account::link, which Manager::link turns into Ok(false).
SavePreKey ==
  /\ pc = "prekeys" /\ wi <= Len(PreKeyKinds)
  /\ \/ /\ prekeys' = prekeys \union {<<PreKeyKinds[wi], attempt>>}
        /\ wi' = wi + 1
        /\ UNCHANGED <<pc, op, mem, failures>>
     \/ /\ failures < MaxFailures /\ failures' = failures + 1
        /\ GiveUp("prekeys")
        /\ UNCHANGED prekeys
  /\ UNCHANGED <<pddb, manager, attempt, server, stale>>

\* account_link reads the account back and connect gives it to a manager.
LinkDone ==
  /\ wi > Len(PreKeyKinds)
  /\ GiveUp("prekeys")
  /\ \E d \in Views :
       /\ ReadAs(d) /\ ~Panics(d)
       /\ manager' = IF Readable(d) THEN d ELSE None
  /\ UNCHANGED <<pddb, prekeys, attempt, server, stale>>

Next ==
  \/ Boot \/ BootPanics \/ Crash \/ Connect
  \/ SetDelete \/ SetCreate \/ SetWrite \/ SkipAep
  \/ NewDone \/ NumberDone \/ Provision \/ Put \/ SaveDone \/ SavePreKey \/ LinkDone

Spec == Init /\ [][Next]_vars

-----------------------------------------------------------------------------
(* Properties.                                                              *)

OnDisk == {f \in Fields \ Unread : IsSet(pddb[f])}

\* Nothing is stored of a link the server did not accept: no credential in
\* the dictionary and no private prekey, whatever crashed or got lost.
OnlyAcceptedStored ==
  /\ \A f \in Fields : IsSet(pddb[f]) => pddb[f] \in server
  /\ \A r \in prekeys : r[2] \in server

\* What the dictionary holds of a link is of one link: credentials of an
\* earlier attempt never stand beside those of a later one.  This is about
\* the keys Account::new resets.  It knows neither the registration ids nor
\* the account entropy pool, which is not even written by every link, so
\* these can be of an earlier attempt; and so can a key whose delete failed.
OneLinkOnDisk == \A f, g \in OnDisk \ stale : pddb[f] = pddb[g]

\* The registered flag is the last field written: as long as no call failed,
\* an account that carries it has every field each link writes.
FlagIsLast ==
  IsSet(pddb["registered"]) /\ failures = 0 =>
    \A f \in Rng(LinkWrites) \ {"aep"} : pddb[f] = pddb["registered"]

\* The registration is taken from a dictionary that has one only by the
\* writes of link itself and of Account::new (on an account that became
\* readable again half way), never by the delete after a failed link, unless
\* Account::new could not delete a key of that registration before.
DeleteSparesRegistered ==
  [][Registered(pddb) /\ ~Registered(pddb') /\ stale = {} =>
       pc \in {"save", "new", "newRegister"}]_vars

\* A manager works on the account that is on disk: no setup runs below it.
\* After a pddb call that failed it may miss a field that was not read, and
\* have the number of account_register that was not written.
LoadedIsOnDisk ==
  manager # None =>
    /\ failures = 0 => manager = pddb
    /\ \A f \in Fields :
         manager[f] # pddb[f] => manager[f] = None \/ f = "number"

-----------------------------------------------------------------------------
(* What comments in the code say.                                           *)

\* is_registered: with device_id, aci_service_id and password present "the
\* link REST call succeeded and all keys are usable".
Usable(n) ==
  /\ \A f \in {"aci_identity", "pni", "registration_id"} : pddb[f] = n
  /\ \A k \in Rng(PreKeyKinds) : <<k, n>> \in prekeys

AllKeysUsable == pc = "idle" /\ Registered(pddb) => Usable(pddb["device_id"])

\* is_registered: "the registered flag just wasn't written yet": a process
\* that starts with the three credentials on disk takes them for registered.
PartialLinkRecognised ==
  pc = "off" /\ {"device_id", "aci_service_id", "password"} \subseteq OnDisk
    => Registered(pddb)

\* Account::set: "the value is saved to the pddb and, on success, set to the
\* corresponding field in the Account struct".
CacheMatchesDisk ==
  mem # None /\ op = "delete" => \A f \in Cached : mem[f] = pddb[f]

\* Account::read: "device_id.parse().unwrap()" and the like: what a process
\* finds at its start can be parsed.
StoredParses == pc = "off" => ~Panics(pddb)

\* SigChat::is_ready: "true if a registered account is already loaded".
ReadyMeansRegistered == manager # None => IsRegistered(manager)

=============================================================================
