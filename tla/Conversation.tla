---------------------------- MODULE Conversation ----------------------------
(***************************************************************************)
(* What the receive worker (main_ws.rs) and the main thread (SigChat::post *)
(* and outgoing.rs) do to the state they share through the pddb without a  *)
(* lock: the session record and the identity of each peer, and the current *)
(* recipient.  The server pushes the messages it has no acknowledgement    *)
(* for, in order, and again after a reconnect.                             *)
(*                                                                         *)
(* A session record is the identity key of its peer, the set of messages   *)
(* it has decrypted and the number of messages it has encrypted; libsignal *)
(* loads it, works on the copy and stores that.  A store is a delete and   *)
(* then a write: None in between.  An identity that was created and not    *)
(* written is Empty, which cannot be decoded; an empty session record and  *)
(* an empty recipient are as good as none.                                 *)
(***************************************************************************)
EXTENDS Integers, Sequences, FiniteSets, Padding

CONSTANTS
  Peers,
  Keys,         \* identity keys a peer may have, one after another
  Messages,     \* what the server holds; bytes encodes the content
  MaxPosts,     \* bound: messages the user posts
  MaxCrashes,   \* bound: ends of the process
  MaxDrops,     \* bound: connections that break
  MaxFailures,  \* bound: pddb writes and ACKs that fail
  Empty, None

\* What a message holds: a text, a copy of one that the user's other device
\* has sent, one whose destination has no character boundary after its eighth
\* byte, or nothing that is shown.
Contents == {"text", "sync", "uncut", "none"}

ASSUME MessagesAssumption ==
  Messages \in Seq([from : Peers, key : Keys, type : {"prekey", "cipher", "other"},
                    content : Contents, bytes : Seq(Byte)])
ASSUME BoundsAssumption ==
  /\ MaxPosts \in Nat /\ MaxCrashes \in Nat /\ MaxDrops \in Nat /\ MaxFailures \in Nat

ASSUME NamesAssumption == Empty \notin Keys /\ None \notin Keys /\ Empty # None

VARIABLES
  acked,      \* messages the server has an acknowledgement for
  link,       \* the WebSocket: "up" or "down"
  pushed,     \* messages pushed on this connection
  session,    \* the session record of each peer on disk, or None
  identity,   \* the identity key of each peer on disk, Empty or None
  used,       \* the markers of the Kyber prekey: whose first message used it up
  recipient,  \* the current recipient on disk, or None
  wpc,        \* the receive worker
  msg,        \* the message it handles
  base,       \* the session record it has loaded
  rec,        \* its copy of the session record
  pending,    \* the stores libsignal has still to call for this message
  mpc,        \* the main thread in SigChat::post
  to,         \* the recipient it has read
  copy,       \* its copy of the session record
  posts,      \* posts so far
  shown,      \* how often each message was added to the chat
  handled,    \* messages whose dispatch has ended
  encrypted,  \* messages encrypted for each peer whose record was stored
  stale,      \* threads whose record the other one has stored since they loaded it
  clobbered,  \* a store put such a record on disk: what the other stored is lost
  crashes, drops, failures

worker == <<wpc, msg, base, rec, pending>>
main == <<mpc, to, copy>>
disk == <<session, identity, used, recipient>>
server == <<acked, link, pushed>>
stores == <<stale, clobbered>>
history == <<shown, handled, encrypted, stores>>
bounds == <<crashes, drops, failures>>
vars == <<acked, link, pushed, session, identity, used, recipient, wpc, msg,
          base, rec, pending, mpc, to, copy, posts, shown, handled, encrypted,
          stale, clobbered, crashes, drops, failures>>

Ids == DOMAIN Messages
From(m) == Messages[m].from
Key(m) == Messages[m].key
Record == [key : Keys, got : SUBSET Ids, sent : 0..MaxPosts]
ASSUME RecordAssumption == None \notin Record
Fresh(k) == [key |-> k, got |-> {}, sent |-> 0]

WorkerPcs == {"read", "load", "store", "write", "name", "show", "forget", "remember", "ack", "dead"}

TypeOK ==
  /\ acked \subseteq Ids /\ pushed \subseteq Ids /\ link \in {"up", "down"}
  /\ session \in [Peers -> Record \union {None}]
  /\ identity \in [Peers -> Keys \union {Empty, None}]
  /\ used \subseteq Peers \X Keys /\ recipient \in Peers \union {None}
  /\ wpc \in WorkerPcs /\ msg \in Ids \union {None}
  /\ base \in Record \union {None} /\ rec \in Record \union {None}
  /\ pending \subseteq {"identity", "used", "session"}
  /\ mpc \in {"idle", "find", "load", "delete", "write"}
  /\ to \in Peers \union {None} /\ copy \in Record \union {None}
  /\ posts \in 0..MaxPosts
  /\ shown \in [Ids -> Nat] /\ handled \subseteq Ids
  /\ encrypted \in [Peers -> 0..MaxPosts]
  /\ stale \subseteq {"worker", "main"} /\ clobbered \in BOOLEAN
  /\ crashes \in 0..MaxCrashes /\ drops \in 0..MaxDrops /\ failures \in 0..MaxFailures

Init ==
  /\ acked = {} /\ link = "down" /\ pushed = {}
  /\ session = [p \in Peers |-> None] /\ identity = [p \in Peers |-> None]
  /\ used = {} /\ recipient = None
  /\ wpc = "read" /\ msg = None /\ base = None /\ rec = None /\ pending = {}
  /\ mpc = "idle" /\ to = None /\ copy = None /\ posts = 0
  /\ shown = [m \in Ids |-> 0] /\ handled = {}
  /\ encrypted = [p \in Peers |-> 0] /\ stale = {} /\ clobbered = FALSE
  /\ crashes = 0 /\ drops = 0 /\ failures = 0

Fails == failures < MaxFailures /\ failures' = failures + 1

-----------------------------------------------------------------------------
(* The connection and the process.                                          *)

\* worker_loop connects again after a session has ended.
Connect ==
  /\ wpc = "read" /\ link = "down"
  /\ link' = "up" /\ pushed' = {}
  /\ UNCHANGED <<acked, disk, worker, main, posts, history, bounds>>

Drop ==
  /\ link = "up" /\ drops < MaxDrops
  /\ link' = "down" /\ drops' = drops + 1
  /\ UNCHANGED <<acked, pushed, disk, worker, main, posts, history, crashes, failures>>

\* The process ends and starts again: disk and server remain.
Crash ==
  /\ crashes < MaxCrashes /\ crashes' = crashes + 1
  /\ link' = "down" /\ pushed' = {}
  /\ wpc' = "read" /\ msg' = None /\ base' = None /\ rec' = None /\ pending' = {}
  /\ mpc' = "idle" /\ to' = None /\ copy' = None
  /\ UNCHANGED <<acked, disk, posts, history, drops, failures>>

-----------------------------------------------------------------------------
(* The receive worker: dispatch_envelope, deliver_content and the ACK.      *)

\* The messages the server has still to push on this connection; it pushes
\* the oldest first.
Waiting == Ids \ (acked \union pushed)
Oldest(m) == m \in Waiting /\ \A n \in Waiting : m <= n

\* Mutant: the message is acknowledged as soon as it was read.
ReadAcks ==
  /\ wpc = "read" /\ link = "up"
  /\ \E m \in Ids : Oldest(m) /\ msg' = m
  /\ pushed' = pushed \union {msg'} /\ acked' = acked \union {msg'}
  /\ wpc' = "load"
  /\ UNCHANGED <<link, disk, base, rec, pending, main, posts, history, bounds>>

\* run_session reads the next frame.
Read ==
  /\ wpc = "read" /\ link = "up"
  /\ \E m \in Ids : Oldest(m) /\ msg' = m
  /\ pushed' = pushed \union {msg'}
  /\ wpc' = "load"
  /\ UNCHANGED <<acked, link, disk, base, rec, pending, main, posts, history, bounds>>

\* dispatch_envelope returns to handle_request, which acknowledges.
DispatchEnds ==
  /\ wpc' = "ack" /\ base' = None /\ rec' = None /\ pending' = {}
  /\ handled' = handled \union {msg}

\* Mutant: any identity is trusted.
TrustsAny(p, k) == identity[p] # Empty

\* is_trusted_identity: the key on disk, or any key where there is none; a
\* record that cannot be decoded is an error.
Trusts(p, k) == identity[p] \in {k, None}

NewSession(old) == old = None \/ old.key # Key(msg)

\* Whether libsignal decrypts the message with the record that was loaded.
\* A first message needs a prekey that is not used up; a message is
\* decrypted once by a record.
Decrypts(old) ==
  /\ Trusts(From(msg), Key(msg))
  /\ \/ /\ Messages[msg].type = "prekey" /\ NewSession(old)
        /\ <<From(msg), Key(msg)>> \notin used
     \/ /\ Messages[msg].type \in {"prekey", "cipher"} /\ ~NewSession(old)
        /\ msg \notin old.got

Load ==
  /\ wpc = "load"
  /\ LET old == session[From(msg)]
         new == IF NewSession(old) THEN Fresh(Key(msg)) ELSE old
     IN IF Decrypts(old)
        THEN /\ base' = old /\ rec' = [new EXCEPT !.got = @ \union {msg}]
             /\ pending' = {"identity", "session"}
                             \union (IF NewSession(old) THEN {"used"} ELSE {})
             /\ wpc' = "store" /\ stale' = stale \ {"worker"} /\ UNCHANGED handled
        ELSE DispatchEnds /\ UNCHANGED stale
  /\ UNCHANGED <<server, disk, msg, main, posts, shown, encrypted, clobbered, bounds>>

Stored(kind) ==
  /\ pending' = pending \ {kind}
  /\ wpc' = IF pending' = {} THEN "show" ELSE "store"
  /\ UNCHANGED <<base, rec, handled>>

\* Mutant: the marker of the last-resort prekey is not written.
MarkUsedNothing ==
  /\ wpc = "store" /\ "used" \in pending
  /\ Stored("used")
  /\ UNCHANGED <<server, disk, msg, main, posts, shown, encrypted, stores, bounds>>

\* mark_kyber_pre_key_used.  libsignal calls the stores one after another:
\* the identity, the marker of the prekey, the session.  One that fails makes
\* the decryption fail; a marker that was created counts, written or not.
MarkUsed ==
  /\ wpc = "store" /\ "used" \in pending /\ "identity" \notin pending
  /\ LET marked == used \union {<<From(msg), Key(msg)>>}
     IN \/ used' = marked /\ Stored("used") /\ UNCHANGED failures
        \/ used' \in {used, marked} /\ Fails /\ DispatchEnds
  /\ UNCHANGED <<server, session, identity, recipient, msg, main, posts, shown,
                 encrypted, stores, crashes, drops>>

\* save_identity: a key that is on disk already is left alone; otherwise the
\* record is deleted and created ...
SaveIdentity ==
  /\ wpc = "store" /\ "identity" \in pending
  /\ \/ /\ identity[From(msg)] = rec.key
        /\ Stored("identity") /\ UNCHANGED <<identity, failures>>
     \/ /\ identity[From(msg)] # rec.key
        /\ identity' = [identity EXCEPT ![From(msg)] = Empty]
        /\ wpc' = "name" /\ UNCHANGED <<base, rec, pending, handled, failures>>
     \/ /\ identity[From(msg)] # rec.key
        /\ identity' = [identity EXCEPT ![From(msg)] = None]
        /\ Fails /\ DispatchEnds
  /\ UNCHANGED <<server, session, used, recipient, msg, main, posts, shown,
                 encrypted, stores, crashes, drops>>

\* ... and then written.
WriteIdentity ==
  /\ wpc = "name"
  /\ \/ /\ identity' = [identity EXCEPT ![From(msg)] = rec.key]
        /\ Stored("identity") /\ UNCHANGED failures
     \/ Fails /\ DispatchEnds /\ UNCHANGED identity
  /\ UNCHANGED <<server, session, used, recipient, msg, main, posts, shown,
                 encrypted, stores, crashes, drops>>

\* pddb_write_binary deletes the old record first ...
StoreDelete ==
  /\ wpc = "store" /\ pending = {"session"}
  /\ session' = [session EXCEPT ![From(msg)] = None]
  /\ wpc' = "write"
  /\ UNCHANGED <<server, identity, used, recipient, msg, base, rec, pending, main,
                 posts, history, bounds>>

\* The main thread holds a record of p that it will store.
MainHolds(p) == mpc \in {"delete", "write"} /\ to = p

\* ... and then writes the new one.
StoreWrite ==
  /\ wpc = "write"
  /\ \/ /\ session' = [session EXCEPT ![From(msg)] = rec]
        /\ clobbered' = (clobbered \/ "worker" \in stale)
        /\ stale' = (stale \ {"worker"}) \union IF MainHolds(From(msg)) THEN {"main"} ELSE {}
        /\ Stored("session") /\ UNCHANGED failures
     \/ Fails /\ DispatchEnds /\ UNCHANGED <<session, stores>>
  /\ UNCHANGED <<server, identity, used, recipient, msg, main, posts, shown, encrypted,
                 crashes, drops>>

\* What ContentProto::decode makes of the padded plaintext: the content, if
\* the bytes are the ones that encode it.
Content ==
  [m \in Ids |->
     IF Strip(Pad(Messages[m].bytes)) = Messages[m].bytes THEN Messages[m].content ELSE "none"]

\* Mutant: the recipient is set for everything that was decrypted.
ShowAnyway ==
  /\ wpc = "show"
  /\ shown' = IF Content[msg] = "none" THEN shown ELSE [shown EXCEPT ![msg] = @ + 1]
  /\ wpc' = "forget" /\ UNCHANGED <<base, rec, pending, handled>>
  /\ UNCHANGED <<server, disk, msg, main, posts, encrypted, stores, bounds>>

\* deliver_content: a text goes to the chat and makes its sender the
\* recipient, a sync message goes to the chat, anything else is dropped.  The
\* name of a sync message is cut from its destination, which panics where it
\* cannot be cut: nothing starts the thread again but a new process.
Show ==
  /\ wpc = "show"
  /\ CASE Content[msg] = "text" ->
            /\ shown' = [shown EXCEPT ![msg] = @ + 1]
            /\ wpc' = "forget" /\ UNCHANGED <<base, rec, pending, handled>>
       [] Content[msg] = "sync" ->
            shown' = [shown EXCEPT ![msg] = @ + 1] /\ DispatchEnds
       [] Content[msg] = "uncut" ->
            wpc' = "dead" /\ UNCHANGED <<shown, base, rec, pending, handled>>
       [] OTHER -> DispatchEnds /\ UNCHANGED shown
  /\ UNCHANGED <<server, disk, msg, main, posts, encrypted, stores, bounds>>

\* set_current_recipient deletes the old recipient and writes the new one.
Forget ==
  /\ wpc = "forget" /\ recipient' = None /\ wpc' = "remember"
  /\ UNCHANGED <<server, session, identity, used, msg, base, rec, pending, main, posts, history, bounds>>

Remember ==
  /\ wpc = "remember"
  /\ \/ recipient' = From(msg) /\ UNCHANGED failures
     \/ Fails /\ UNCHANGED recipient
  /\ DispatchEnds
  /\ UNCHANGED <<server, session, identity, used, msg, main, posts, shown, encrypted,
                 stores, crashes, drops>>

\* Mutant: what could not be shown is not acknowledged.
AckShown ==
  /\ wpc = "ack"
  /\ acked' = IF link = "up" /\ shown[msg] > 0 THEN acked \union {msg} ELSE acked
  /\ wpc' = "read" /\ msg' = None
  /\ UNCHANGED <<link, pushed, disk, base, rec, pending, main, posts, history, bounds>>

\* Mutant: the acknowledgement carries the default id.
AckDefaultId ==
  /\ wpc = "ack"
  /\ acked' = IF link = "up" THEN acked \union {0} ELSE acked
  /\ wpc' = "read" /\ msg' = None
  /\ UNCHANGED <<link, pushed, disk, base, rec, pending, main, posts, history, bounds>>

\* send_ack: every message is acknowledged, whatever became of it; an ACK
\* that cannot be sent is only logged, and the session goes on.
Ack ==
  /\ wpc = "ack"
  /\ \/ acked' = (IF link = "up" THEN acked \union {msg} ELSE acked) /\ UNCHANGED failures
     \/ link = "up" /\ Fails /\ UNCHANGED acked
  /\ wpc' = "read" /\ msg' = None
  /\ UNCHANGED <<link, pushed, disk, base, rec, pending, main, posts, history, crashes, drops>>

-----------------------------------------------------------------------------
(* The main thread: SigChat::post, up to the encrypted message.             *)

PostEnds == mpc' = "idle" /\ to' = None /\ copy' = None

Post ==
  /\ mpc = "idle" /\ posts < MaxPosts
  /\ mpc' = "find" /\ posts' = posts + 1
  /\ UNCHANGED <<server, disk, worker, to, copy, history, bounds>>

ShownTexts == {m \in Ids : shown[m] > 0 /\ Messages[m].content = "text"}

\* current_recipient: without one the post stays local.
Find ==
  /\ mpc = "find"
  /\ IF recipient = None
     THEN PostEnds
     ELSE mpc' = "load" /\ to' = recipient /\ UNCHANGED copy
  /\ UNCHANGED <<server, disk, worker, posts, history, bounds>>

\* build_encrypted_message loads the record (twice: for the registration id
\* and in message_encrypt; both have to find one and the second one counts).
LoadCopy ==
  /\ mpc = "load"
  /\ IF session[to] = None \/ ~Trusts(to, session[to].key)
     THEN PostEnds /\ UNCHANGED stale
     ELSE /\ mpc' = "delete" /\ copy' = [session[to] EXCEPT !.sent = @ + 1]
          /\ stale' = stale \ {"main"} /\ UNCHANGED to
  /\ UNCHANGED <<server, disk, worker, posts, shown, handled, encrypted, clobbered, bounds>>

CopyDelete ==
  /\ mpc = "delete" /\ mpc' = "write"
  /\ session' = [session EXCEPT ![to] = None]
  /\ UNCHANGED <<server, identity, used, recipient, worker, to, copy, posts, history, bounds>>

\* The worker holds a record of p that it will store.
WorkerHolds(p) == wpc \in {"store", "name", "write"} /\ From(msg) = p

\* Mutant: the record is put back as it was loaded.
CopyWriteOld ==
  /\ mpc = "write"
  /\ session' = [session EXCEPT ![to] = [copy EXCEPT !.sent = @ - 1]]
  /\ encrypted' = [encrypted EXCEPT ![to] = @ + 1]
  /\ PostEnds
  /\ UNCHANGED <<server, identity, used, recipient, worker, posts, shown, handled,
                 stores, bounds>>

CopyWrite ==
  /\ mpc = "write"
  /\ \/ /\ session' = [session EXCEPT ![to] = copy]
        /\ clobbered' = (clobbered \/ "main" \in stale)
        /\ stale' = (stale \ {"main"}) \union IF WorkerHolds(to) THEN {"worker"} ELSE {}
        /\ encrypted' = [encrypted EXCEPT ![to] = @ + 1]
        /\ UNCHANGED failures
     \/ Fails /\ UNCHANGED <<session, stores, encrypted>>
  /\ PostEnds
  /\ UNCHANGED <<server, identity, used, recipient, worker, posts, shown, handled,
                 crashes, drops>>

-----------------------------------------------------------------------------
WorkerStep ==
  \/ Connect \/ Read \/ Load \/ MarkUsed \/ SaveIdentity \/ WriteIdentity \/ StoreDelete \/ StoreWrite
  \/ Show \/ Forget \/ Remember \/ Ack

MainStep == Find \/ LoadCopy \/ CopyDelete \/ CopyWrite

Next == WorkerStep \/ MainStep \/ Post \/ Drop \/ Crash

Spec == Init /\ [][Next]_vars

\* Both threads are scheduled; what breaks does so a bounded number of times.
FairSpec == Spec /\ WF_vars(WorkerStep) /\ WF_vars(MainStep)

-----------------------------------------------------------------------------
(* Properties.                                                              *)

\* The server forgets a message only when its dispatch has run to the end:
\* whatever crashes, an envelope that was not looked at comes again.
AckedWasHandled == acked \subseteq handled

\* A message is shown at most once, however often it is delivered, as long
\* as no store has replaced a record that had changed since its load: the
\* record and, should it be lost, the used marker of the prekey see to it.
ShownOnce == ~clobbered => \A m \in Ids : shown[m] <= 1

\* A post is never addressed to a peer the user has seen no text of.
RecipientWasShown ==
  \A p \in {recipient, to} : p # None => \E m \in ShownTexts : From(m) = p

\* Both threads at rest and nothing lost: the records agree with what was
\* sent and shown, so that the next message of either side can be handled,
\* and no identity is left that cannot be decoded: only a crash or a write
\* that fails makes one (save_identity).
AtRest == wpc = "read" /\ mpc = "idle"
RecordsAgree ==
  AtRest /\ ~clobbered /\ crashes = 0 /\ failures = 0 =>
    \A p \in Peers :
      /\ session[p] # None => session[p].sent = encrypted[p] /\ identity[p] = session[p].key
      /\ identity[p] # Empty
      /\ \A m \in Ids : From(m) = p /\ shown[m] > 0 => session[p] # None /\ m \in session[p].got

\* A text that was decrypted is not lost behind the decryption: a worker that
\* reads its next frame has shown it, but for a crash or a call that failed,
\* whatever bytes its content ends in (strip_signal_padding, deliver_content).
DecryptedIsShown ==
  wpc = "read" /\ crashes = 0 /\ failures = 0 =>
    \A p \in Peers : session[p] # None =>
      \A m \in session[p].got : Messages[m].content # "none" => shown[m] > 0

\* The texts shown for a peer are all of one identity, the one on disk: no
\* crash, no failing store and no rollback of a session makes room for
\* another key (is_trusted_identity and save_identity, for both threads).
ShownFromPinned ==
  \A m \in Ids : shown[m] > 0 => identity[From(m)] = Key(m)

\* No message blocks the ones behind it but one that ends the thread
\* (deliver_sync_message): otherwise the server has in the end pushed all of
\* them, and each ACK that failed leaves at most its own message on the
\* server, until the next connection.
InboxDrains ==
  <>[](\/ wpc = "dead" /\ Content[msg] = "uncut"
       \/ Waiting = {} /\ Cardinality(Ids \ acked) <= failures)

-----------------------------------------------------------------------------
(* What comments in the code say.                                           *)

\* The test of the second message "confirms the session state is being
\* saved": at rest the record counts every message that was encrypted.
SessionStateSaved ==
  AtRest /\ crashes = 0 /\ failures = 0 =>
    \A p \in Peers : encrypted[p] > 0 => session[p] # None /\ session[p].sent = encrypted[p]

\* save_identity: "Different key or decode failed - overwrite": no message is
\* refused because of a record that cannot be decoded.
UndecodableOverwritten ==
  [][wpc = "load" /\ wpc' = "ack" => identity[From(msg)] # Empty]_vars

\* current_recipient: "NoRecipient if no one has messaged us yet".
NoRecipientMeansNoMessage == mpc = "find" /\ recipient = None => ShownTexts = {}

\* main_ws: "decrypts incoming envelopes, parses Content proto, and delivers
\* text to the Chat UI": the server is told that a first message that holds
\* text arrived only when the text was shown.
AckedTextShown ==
  \A m \in acked :
    /\ Messages[m].type = "prekey" /\ Messages[m].content = "text"
    /\ identity[From(m)] = Key(m)
    => shown[m] > 0

=============================================================================
