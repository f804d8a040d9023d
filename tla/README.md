# Verification of sigchat

sigchat is a Signal client for Xous: a chat window, a main thread that sets up
an account and posts messages, and worker threads that hold WebSockets to the
Signal server.  Account, sessions and keys live in the pddb, the device's
key-value store.  The modules here model the parts of the program whose
correctness depends on the *order* of events: linking a device, keeping the
account on disk, exchanging messages, reconnecting, and the main loop that
starts all of it, and the data of the linking request, whose ranges, keys and
random bytes a test sees only for the values it happens to draw.  TLC checks
them on small instances; for every module with runs TLAPS proves safety
properties for every value of the constants.

Paths below are relative to the repository (`src/lib.rs` is the crate's own
`src` directory).

## Inventory

| part | state | operations | interacts with | what is hard | what makes it correct |
|---|---|---|---|---|---|
| provisioning session (`manager/ws_server.rs`, `Manager::link`) | the Xous server (SID) and its queue, a pending result, a parked page, the WebSocket, the deadline | `spawn`, `wait_and_take_binary`, `cancel`, `worker_loop` | main thread and worker over blocking IPC | two threads blocked on each other; the deadline against a delivery; a thread that fails half way | the blocked caller is always found and answered once, with the first result; nothing is left running |
| account and setup (`account.rs`, `lib.rs` 43-280) | about twenty keys in the pddb, the `Account` struct, `SigChat.manager` | `new`, `read`, `set`, `link`, `delete`, `is_registered`, `connect`, `account_link` | the Signal REST server | a long sequence of single writes, a crash between any two, an error that is swallowed, a lost answer | nothing is stored of a link the server refused; one link at a time; the flag last |
| message exchange (`manager/main_ws.rs` 300-689, `manager/outgoing.rs`, `SigChat::post`) | session, identity and prekey-marker records, the current recipient | `dispatch_envelope`, `deliver_content`, `send_ack`, `post` | receive worker and main thread over the pddb, without a lock | load, change, store on both threads; redelivery; crash between two stores | acknowledged means handled; shown once; one identity for a peer; the inbox drains |
| receive connection (`manager/main_ws.rs` 190-356) | backoff, the times of the two keepalives | `worker_loop`, `run_session` | the server | time: backoff, keepalives, reads of unknown length, a clock that starts at boot | attempts are spaced; keepalives are on time; the worker does not give up |
| main loop (`main.rs`, `SigChat::connect`) | `first_focus`, the captured post, `SigChat.manager` | the opcodes, the connect at the start | chat window, both of the above | two paths share one flag; every outcome of connect | one receive worker, for a linked account; each post handed on once |
| pddb stores (`manager/stores.rs`) | the dictionaries of keys and sessions | the libsignal store traits | both threads | delete before write | see message exchange |
| linking data path (`Manager::link` after the session, `Account::link`, `manager/rest.rs`) | the decrypted ProvisionMessage, the secrets drawn, the form of the login, the answer | `decrypt`, `link`, `put_devices_link`, `try_put`, `save_to_pddb` | the phone's envelope, the Signal server, the TRNG, the pddb | an envelope for an earlier QR code, a code that is spent, a lost or odd answer, equal random ids | what is stored is what the server linked for this QR code; a code is presented again only after a refusal; every prekey that was saved stays on disk, also when a later save fails |
| provisioning envelope, account attributes, prekeys (`manager/libsignal.rs`, `account_attrs.rs`, `prekeys.rs`) | none | decoding and decrypting, the encrypted device name, random ids | called by the above | slices of a body of any length, ranges of ids, which key signs what | no panic; everything sent is in the server's ranges and readable by the phone |
| random numbers (`getrandom_xous.rs`, `imports/getrandom-02`) | `TRNG_CONN` | `ensure_trng_conn`, `fill_bytes`, `fill_from_trng` | every thread; the TRNG server | chunks against the words of one message, tails, two threads without a connection | every byte handed out is the server's |
| padding (`outgoing.rs` 111, `main_ws.rs` 607) | none | `signal_pad`, `strip_signal_padding` | the two ends of a message | contents that end in bytes of the padding | stripping gives the content back |
| configuration and small types | none | parsing | | | not modelled |

Every hazard of this code that a test would hardly reach, with its line and the
property that watches it, is in `PROJECT.json` under `hazards`.

## Modules

| module | models | composed with |
|---|---|---|
| `ProvisionWorker` | `Manager::link` and `worker_loop` as two threads | implements `OneShotSession` |
| `OneShotSession` | what `ws_server.rs` promises ("strictly one-shot") | abstract |
| `AccountLink` | setup and linking, one pddb call per step | |
| `Conversation` | receive worker and `post` over the shared records | |
| `MainWs` | the reconnect loop and a session's keepalives in time | its `Read` is where `Conversation` begins |
| `App` | `main` and its message loop; setup and `start_receive` by their outcomes | its `ConnectTrue`/`ConnectNotTrue` are the ends of `AccountLink`, its `StartReceive` the `Start` of `MainWs` |
| `Linking` | setup dialogue, `Manager::link` and `Account::link` with the data they handle, the server and the phone | EXTENDS `Provisioning` and `TrngFill`; the link session is `ProvisionWorker`'s and the single pddb calls are `AccountLink`'s, both one step here |
| `Provisioning` | frames, envelope, device name, request as operators | used by `Linking` |
| `TrngFill` | both random number backends, any number of threads | a state machine of its own; `Linking` takes its steps |
| `Padding` | padding and stripping as operators on bytes | used by `Conversation` |
| `MC*` | constants for TLC | |
| `*Proofs` | theorems about the module of that name | |

### ProvisionWorker

`linkPc` is the main thread's place in `Manager::link`, `wpc` the worker's place
in one iteration of its loop: `recv` (the non-blocking receive), `deadline`,
`keepalive`, `read`, `deliver`.  `queue` is the SID's message queue; its only
sender blocks on each message, so a set is enough.  `waiter` and `pending` are
the variables of that name in `worker_loop`; `first` is a history variable, the
first result produced.  Failures that the code handles are alternatives of the
actions (the connection, the uuid, the modal, the thread, the timer, the IPC
receive, a frame over the limit, a page that cannot be decoded, an answer to
Cancel that is not returned, a server that is not destroyed).  Time is counted
in ticks of any length; it passes in `read`, and in the spinning that the loop
falls into while it holds a result nobody has come for.  A read that times out
takes at least `READ_TIMEOUT` and, as a frame may come in pieces, up to
`MaxRead`; one that returns a frame or fails ends after any number of ticks up
to that, and without a read timeout up to the whole deadline.  The keepalive is
only looked at between two reads, so `KeepaliveCadence` bounds the silence by
the interval and one read, not by the interval.

`OneShotSession` says what a caller may rely on: a server is created once and
goes for good; the outcome is fixed by the first thing that happens; there is
one answer, that outcome or a failure.  `OneShotSpec` is the refinement, with
`sid`, `first` and `result` for its variables.

### AccountLink

The account dictionary is a function from fields to the number of the link
attempt that wrote them (`Default` for what `Account::new` writes, `Empty` for a
key that was created and not written, or written in part over an older value,
`None` for an absent one).  Keys that are written next to each other and read
together are one field.  `set` is three pddb calls, `SetDelete`, `SetCreate`,
`SetWrite`, each of which may fail, and returns Ok whatever they do; `Crash` can
come between any two.  A `get` that fails reads as an absent key (`Views`).
`NewWrites` and `LinkWrites` are the orders of `Account::new` and
`Account::link`.  The account entropy pool is written only when the message has
one (`SkipAep`) and reset by nothing; `NumberDone` ends `account_register`,
whose `set_number` is a `set` like the others.  `stale` is a history variable:
the fields whose last delete failed.  `Put` is the request that links the
device; an error leaves open whether the server has done it.

### Conversation

A session record holds the identity key of its peer, the messages it has
decrypted and how many it has encrypted.  The worker goes through `Load` (trust
decision and decryption), the stores that libsignal calls (`SaveIdentity`,
`WriteIdentity`, `MarkUsed`, `StoreDelete`, `StoreWrite`), `Show`, `Forget` and
`Remember` (the recipient), and `Ack`.  The main thread goes through `Find`,
`LoadCopy`, `CopyDelete`, `CopyWrite`.  The server pushes what it has no
acknowledgement for, in order, again after each reconnect.  Two history variables
follow the missing lock: `stale` has the threads whose record the other one has
stored since they loaded it, and `clobbered` is set when such a record is stored,
also over a record that is just deleted.  Properties that cannot survive that are stated for behaviours
without it; `SessionStateSaved` is the one that says it does not happen, and it
does.  A sync message whose destination has no character boundary after eight
bytes (`uncut`) panics in its log line: the worker is `dead`, unacknowledged, and
nothing replaces it before the next start.  An acknowledgement may also fail while
the link stays up; it is only logged.  A marker counts as used from its create on.
A post never writes an identity: whoever is a recipient had a text shown,
and `ShownFromPinned` says that its identity is then on disk.

What `Show` sees of a message is `Content`: the content of the bytes that come
out of `Strip(Pad(bytes))`, and nothing readable if these are not the bytes that
went in.  `DecryptedIsShown` relates a session record to the chat: what the
record has decrypted, and so will never decrypt again, was shown, but for a crash.

### Linking, Provisioning and TrngFill

`Linking` follows one attempt after the other: `Start` (`account_setup` resets
the account), `ReadAddress`, the key pair (`KeygenAsk`, `KeygenDone`),
`ScanFrame` with `Provisioning!Outcome` (every check of
`PrimaryProvisioningCipher::decrypt` in its order), the ten draws of
`Account::link` with the checks before each, `Put` and `HandleAnswer` with the
retry of `put_devices_link` under a login without `.-1`, `Store`, and `SavePreKey`
for each of the four records, any of which may fail and end link in `Ok(false)`
with the account linked (`saved` counts those on disk).
`FailErr` is an error of `Manager::link`, after which `account_link` deletes the
account; `FailFalse` is one of `Account::link`, which `Manager::link` turns into
`Ok(false)`.  `Serve` and `Break` are the server and the network; a request may
have been carried out although its answer is lost.

Keys and ciphertexts are symbols that come apart only with the key they were
made with; a text is a sequence of blocks, so that the counter mode of the device
name matters.  An envelope is a record of its layers, and `Frames` has the
phone's, those for earlier QR codes, and every frame with one fault in one layer.

`TrngFill` has a request for each thread: the bytes still to be written, and how
many of the written ones came from the server.  `Scalar`, `Page` and `Remainder`
are the branches of the two fill loops with the size of what is copied; a slice
that is too short panics.  The v02 backend fills pages of 4096 bytes through a
buffer of 1020 words, so that a request of 4081 bytes or more panics
(`imports/getrandom-02/src/xous.rs`); nothing in sigchat asks for that many, and
`OnlyLargePanics` says that nothing less does.

### MainWs

Times are ages in ticks: since the last Ping, since the last application
keepalive, since the last attempt to connect, and of the Ticktimer's clock.
`Begin` has the saturating subtraction with which a session sets its first
application keepalive.  A read takes from nothing to `Busy` ticks, the handling
of its frame included; where `set_read_timeout` failed, which is only logged
(`timed`), up to `MaxRead`.  `ReadPanics` is a frame whose handling ends the
thread (`Conversation!Show`).

### App

The steps of `main`: the connect at the start, the receive, the branch of the
opcode, the post at the end of the iteration.  `manager` is `blank` after
`account_register`, which hands over an account that is not linked, and after a
link whose credentials were not written.  `auto` says whether this process
connected at its start.

## Runs

| run | question | result |
|---|---|---|
| `provision` | every interleaving of link and worker with frames, deadline and failures: `PageAccountedFor`, `FirstResultWins`, `NoResultWithheld`, `KeepaliveCadence`, `NothingLeftRunning`, `OneShotSpec`, `LinkReturns` | hold, 90 062 states |
| `provision_bail` | a worker without a timer makes the caller's `lend_mut` fail (comment, `ws_server.rs` 201-202) | violated: the SID lives on and the caller hangs |
| `account` | crashes at every pddb call, one failing call (a read, a delete, a create or a write), two link requests: `OnlyAcceptedStored`, `OneLinkOnDisk`, `FlagIsLast`, `LoadedIsOnDisk`, `DeleteSparesRegistered` | hold, 1 168 622 states |
| `account_keys` | a registered account has all its keys (comment, `account.rs` 425-427) | violated: the private prekeys are saved last, and a failing write is swallowed |
| `account_partial` | an account with its credentials is recognised after a crash (same comment) | violated: a crash after the delete of a required key makes it unreadable |
| `conversation` | seven messages, one of which ends the worker, two posts, a crash, a broken connection, a failing call: `AckedWasHandled`, `ShownOnce`, `RecipientWasShown`, `RecordsAgree`, `DecryptedIsShown`, `ShownFromPinned`, `InboxDrains` | hold, 981 350 states |
| `conversation_saved` | the record counts every message encrypted (test, `outgoing.rs` 534-535) | violated without any failure: worker and post overlap |
| `main_ws` | reads and failures of any length: `AttemptsSpaced` (never closer than the backoff that the failures so far call for), `KeepalivesCurrent` (no read begins with a keepalive overdue; under a read timeout none is later than its interval and one read) | hold, 14 548 states |
| `main_ws_first` | a session sends its application keepalive at once (comment, `main_ws.rs` 250) | violated within 55 s of boot |
| `app` | `AtMostOneWorker`, `WorkerNeedsAccount`, `FocusUntilOnline`, `PostedOnce` | hold, 670 states |
| `linking` | two attempts over every faulty frame, answer and draw, next to another thread at the TRNG: `StoredIsLinked`, `NoCodeSentTwice`, `AnsweredIsStored`, `SentIsValid`, `UploadedKeysOnDisk`, `NeverPanics`, `EveryByteFresh`, `ConnectedBeforeUse`, `OnlyLargePanics`, `AttemptEnds` | hold, 205 486 states |
| `app_autoconnect` | the connect at the start works like the one of the first Focus (comment, `main.rs` 77-78) | violated: it clears the flag before it knows the result |

The violated runs are the `findings` of `PROJECT.json`.  The modules state more
of what the code says of itself; these are refuted too when named in a
configuration of their module: `CancelWaitsForExit` and `LiveServerHasWorker`
(`cancel` is answered before the SID is destroyed, and a thread that cannot be
spawned leaves the SID), `CacheMatchesDisk` (`set` updates the struct although
the write failed), `StoredParses` (an empty required key panics `Account::read`
at every start), `ReadyMeansRegistered` and `TrueMeansAccount` (a manager for a
blank account after `account_register`), `UndecodableOverwritten` (an identity
that cannot be decoded is an error of the trust decision, so `save_identity`
never gets to overwrite it and the peer is not heard again),
`NoRecipientMeansNoMessage` (a post between a text's display and the writing of
the recipient), `AckedTextShown` (a crash between storing the session and
showing the text), `ReleasedBeforePost` (the message is still in scope while
`post` runs).

### Bounds

- `provision`: two envelopes, so that one can follow another; a read timeout of 2
  ticks with reads of 0 to 3, keepalive 5 and deadline 11, so that reads end off
  every boundary, two keepalives precede the deadline and none falls on it.  The
  code's 50 and 360 read timeouts change only how often the same steps repeat;
  the proofs do without the numbers.
- `account`: `MaxAttempts` 2 is one link over the remains of another;
  `MaxFailures` 1 puts a failing call at every place.  Crashes are not bounded.
- `conversation`: a first message of two peers, so that the recipient changes;
  one under a second identity; two more messages of the first peer, one that
  could open a session again and one that could not; and two of one's own other
  device, the second with a destination that ends the worker.  Two posts, so that one builds on the other's record; one crash, one
  drop, one failure, each anywhere.
- `main_ws`: an initial backoff of 2 and a maximum of 9 are reached in three
  doublings, the last cut off; `MaxWaits` 5 goes past that.  Reads take up to 2
  ticks, below both intervals, and up to 6, above both, without a timeout.  The device ids are
  the edges of the valid range.
- `linking`: two attempts, so that an envelope, a code and prekey records of the
  first can meet the second.  Body lengths lie around the minimum of 65, around
  the 49 without which the slices overlap, and on and off whole blocks; request
  lengths are a scalar with a tail, the first with a page message, the largest
  that fits and one byte more.  The words of the rng give a registration id of
  16 380 and prekey ids of 1 and 16 777 215, equal ones included.  The name is
  longer than a block.
- `app`: two starts, so that an account linked by one is found by the next; two
  posts.  Focus events are not bounded.

`CHECK_DEADLOCK FALSE` stands where the system may really stop: a process that
has been quit (`app`), a worker without a valid device id (`main_ws`), an empty
inbox and nothing to post (`conversation`), a user who does not try again
(`linking`).

## Fairness

`ProvisionWorker!FairSpec`: both threads keep running (weak fairness of the main
thread's calls, of the worker's start, of its loop), and the clock advances
(strong fairness: infinitely many frames cannot all arrive in no time).  Nothing
is assumed of the user, who may never dismiss the modal, of the server's frames,
or of `SignalWS::close`, which loops on `flush` until the library reports the
end.  `LinkReturns` names the three states it cannot get out of for that.

`Conversation!FairSpec`: weak fairness of the worker, which reconnects and reads
what the server pushes, and of the main thread once it is in `post`; crashes,
broken connections and failing calls happen a bounded number of times.  Posts
are the user's.  `InboxDrains` says what is left of the promise under these
faults: either the worker is dead on an `uncut` message, or all that was pushed is
handled, and only as many messages as calls failed lack their acknowledgement
until the next connection brings them again.

`Linking!Spec`: weak fairness of the steps that the setup dialogue takes by
itself and of main's own request to the TRNG, and of nothing else: the connection
and its close, the user in front of the QR code, a link session that hangs
(`provision_bail`) and a server that never answers, `rest.rs` setting no read
timeout, may each keep the dialogue for ever.  `AttemptEnds` names these three
waits (`address`, `scan`, `wait`) as the only places an attempt can stay at, and
excludes that it goes round for ever, as a retry without an end would.

## Proofs

From `TimesAssumption` and `ValuesAssumption` (keepalive, deadline and read
timeout are positive, a read lasts at least its timeout, the envelopes are not the other results), `ProvisionWorkerProofs`
shows for every set of envelopes and every time:

- `TypeCorrect`, `FirstResult`, `PageSafe`, `NoneLeftRunning`: `[]TypeOK`,
  `[]FirstResultWins`, `[]PageAccountedFor`, `[]NothingLeftRunning`;
- `ResultsAreHandedOver`, `KeepalivesInTime`: `[]NoResultWithheld`,
  `[]KeepaliveCadence`;
- `ImplementsOneShot`: `Spec => OneShotSpec`.

None of these is inductive.  The invariant `IInv` adds what links the two
threads: `SidShape` (the server's life by the places of both), `QueueShape` (what
the queue holds by what the caller is blocked on), `PendingIsFirst` (while the
caller has no answer, what the worker holds is the first result; only after an
answer may it hold a later one, which then nobody comes for) and `WsShape`.  The
step lemmas go action by action, first those of the main thread, then those of
the worker.  `Paced` adds the clock: what the silence is at each place of the loop,
that a read with a timeout begins before the next keepalive is due and adds at most
`MaxRead` to it, unless there is a result already (`SilenceBounded`).  The
refinement maps `LinkSpawn` to `Open`, the first `Produce` to
`Reach`, `FillBuf` to `Answer`, `WorkerExit` to `Close` and every other step to
a stutter, with `IInv` for the guards.

From `BoundsAssumption` and `NoneAssumption`, `AppProofs` shows
`AtMostOneWorker`, `WorkerNeedsAccount`, `FocusUntilOnline`, `PostedOnce` and
`TypeOK` for any number of posts and starts.  Its invariant says of each place on
the way to a worker that there is none yet and what the flag is there: the connect
at the start runs with the flag cleared, the Focus with the flag set, and no place
has both; so a cleared flag means a connect that worked or the one at the start.  Posts have an invariant of their own (`PostInv`).

`MainWsProofs`, from `TimesAssumption`: `TypeOK` and `KeepalivesCurrent` for every
interval, backoff and length of a read, with and without a read timeout, and `BackoffDoubles`, that attempts are
spaced by the doubled backoffs.  `KeepInv` adds that a keepalive that is due is
sent before the step that waits, and what the gap is where the worker has slept.
`Doubled` is a recursive function; that it exists and satisfies its own equation
is proved from a least counterexample (`LeastElement`, `DoubledExists`,
`DoubledFact`).  `Grows` is the step: doubling a bounded value and bounding it
again bounds the doubled one (`LeastDoubled`).

`AccountLinkProofs`: `OnlyAcceptedStored`, `OneLinkOnDisk`, `FlagIsLast`,
`LoadedIsOnDisk` for any number of attempts, failures and crashes, and
`DeleteSparesRegistered`, and `TypeOK`, from `BoundsAssumption` and
`ValuesAssumption` (the marks of an absent and of an empty field are no
attempts).  `AccountInv` has to say, for each place of the setup,
what the writes so far have left on disk (`Progress`), what the server has
accepted by then, and that the flag vouches for the fields before it unless a
call failed (`Flagged`), and, for `account_register`, that its one write can set
the manager and the disk apart in the number only (`Numbering`).  `TypeOK` needs one thing more: what was
loaded was readable, and the writes of a link leave it so (`StaysReadable`).

`ConversationProofs`, from `MessagesAssumption`, `BoundsAssumption`,
`NamesAssumption` and `RecordAssumption`, for any number of peers, keys, messages,
posts and faults, shows all seven invariants of the run.  Frame lemmas say which
action touches which variable, so that each part looks at its own actions only.

`TypeOK`, `AckedWasHandled`, `RecipientWasShown` and `ShownFromPinned` rest on
`ConversationInv`: `Counts` (a post that is under way is in no record yet, so
no record counts more than were posted), `Holding` (what each thread's next step
works on), `Pinning` (from the trust decision to the save the identity on disk is
none or the message's, and a record that cannot be decoded belongs to the message
that is being stored) and the places that still have to set the recipient or to
acknowledge.

`ShownOnce`, `RecordsAgree` and `DecryptedIsShown` rest on `RecordsInv`
(`RecordsCorrect`), which adds to that:

- `LastStore`: the session is the last store of a message.
- `Opening`: wherever a session record is, on disk or with the main thread, the
  identity of its key is on disk and the marker of the prekey is used; so is the
  marker of every message that was shown.  Whatever is lost later, no first
  message can open that session a second time.
- `Recorded`: until a store is clobbered, a message that was shown is in each
  record that counts: the one on disk, the one the worker is about to store, and
  the main thread's unless the worker has stored since (`stale`).  A message that
  is being stored has not been shown: with a record it is new to that record, and
  without one it would need a prekey that `Opening` says is used up.
- `Agreeing`: the same records count what was encrypted for the peer
  (`Counting`); with nothing broken a record is missing only while a thread is
  about to write it, and likewise an identity (`Present`).
- `Showing`: with nothing broken, all that a record has decrypted was shown, but
  for the message on its way to the chat.  Here `StripInvertsPad` says that the
  padding keeps no content from being read.

`TrngFillProofs`: `EveryByteFresh`, `ConnectedBeforeUse`, `OnlyLargePanics` for
every number of threads and every length.  `PaddingProofs`: `StripInvertsPad`,
that stripping gives back every content.  `LinkingProofs`, from
`LinkingAssumption`: the six safety properties of `Linking` for any number of
attempts, any name, any words of the rng and any body length, and the properties
of `TrngFill` for the draws that a link makes.  `LinkingInv` follows an attempt:
what was asked, drawn and decrypted by each place (`Asking`, `Drawn`), that the
server has linked at most one device for a code and no request went out after it
(`Redeeming`), what of that is stored (`Storing`), and how far the four records
are (`Saving`).  `UploadedKeysOnDisk` is then inductive: saving or deleting the
record of one id leaves every other id of its dictionary alone (`OthersKept`).

Every safety invariant, the action property and the refinement of the passing
runs are so stated by a theorem.  Only model-checked is liveness (`LinkReturns`,
`InboxDrains`, `AttemptEnds`), which is out of the prover's reach.  The violated
properties are refuted by their traces.

## What is assumed of the outside

- The pddb: a call is durable when it returns; `get` with create leaves an empty
  key; every call may fail, a delete that fails leaving the old value.  A save that
  fails in `Conversation` has deleted the old record.
- The time a read takes once its timeout is installed has a bound (`MaxRead`,
  `Busy`): a peer that feeds a frame byte by byte is left to the library.
- libsignal, at the revision pinned in `Cargo.toml`: which stores it calls, when
  it decrypts, and the order of its stores, which are the identity, the marker of
  the prekey and, last, the session.  The trust decision precedes the stores.
  `ShownOnce` needs that order: were the session stored first and the marker then
  failed to be written, the message could be decrypted again once the record is
  lost.
- The kernel: a blocking message to a live server is queued until it is received,
  and destroying the server wakes the sender with an error.
- The Signal server keeps messages until they are acknowledged and delivers them
  in order; its answer to a request may be lost; it links one device for a code.
- The phone encrypts one ProvisionMessage for each QR code it scans; others may
  send the session anything, but cannot make a MAC without the key.
- The TRNG server answers with as many random words as it was asked for.
- The chat window may or may not have lent the message it sends.

## Not modelled

- The submission of an encrypted message: the code ends before it.
- The JSON of the recipient: two values, read back by the code that wrote them.
- What libsignal draws inside a signature or a Kyber key.
- `get_identity` and the store of one-time EC prekeys: nothing sigchat uploads
  makes libsignal call them.
- The stores of the setup's prekeys with crashes are in `AccountLink`, their ids in
  `Linking`, which also lets a save fail; no module has all of it.
- Which service id a ProvisionMessage without an `aci` should store: `Linking` has
  the message, no comment says what the code owes its caller.
- `Manager`'s operations that are `todo!()`, the modals' layout, the emulator and
  size tooling, the store test program, vendored crates.

## Plan

Done, in this order: the provisioning session and its proof; the account; the
conversation; the reconnect loop; the main loop and its proof; random numbers,
provisioning envelope, padding and the linking data path; the proofs of the
account, the reconnect loop, the linking data path, padding and the conversation;
the proofs of every remaining safety invariant: the pace of the link session, the
doubled backoff, the types of the account, and of the shared records that they
agree and that messages are shown, and once.

Next:
1. What the message exchange promises as an abstract specification, a mailbox
   that hands on each message and then forgets it, with `Conversation` shown to
   implement it from `RecordsInv`, as `ProvisionWorker` implements `OneShotSession`.
2. `SubmitMessage`, once the code sends what it has encrypted.
3. A composition of `App` and `MainWs`: a worker that ends is never replaced.
   It needs a statement by the code of what the user may expect then.
