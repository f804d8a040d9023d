------------------------------ MODULE Linking ------------------------------
(***************************************************************************)
(* Linking this device, put on the data path: the setup dialogue calls     *)
(* Manager::link, which shows a fresh key, takes a provisioning frame off  *)
(* the link session, decrypts it (Provisioning), and Account::link, which  *)
(* draws its secrets from the TRNG (TrngFill) next to another thread,      *)
(* sends PUT /v1/devices/link, retries it once, and stores the account and *)
(* the prekeys.  The session itself is ProvisionWorker's and every pddb    *)
(* call with its crashes is AccountLink's: both are single steps here.     *)
(***************************************************************************)
EXTENDS Provisioning, TrngFill, FiniteSets

CONSTANTS
  MaxAttempts,        \* bound: how often the user starts the dialogue
  DeviceName,         \* the name the user gives, a sequence of 16-byte blocks
  BodyLens,           \* lengths of malformed envelope bodies
  RegistrationWords,  \* the words the rng may give for a registration id
  PreKeyWords         \* ... and for a prekey id

VARIABLES
  pc,        \* the step of the setup dialogue and the calls below it
  attempt,   \* how many times it was started; names the key of the QR code
  message,   \* the ProvisionMessage that was decrypted
  words,     \* the results of the draws of Account::link so far
  login,     \* the form of the user name in the Authorization header
  answer,    \* what try_put is about to return
  account,   \* the account record
  records,   \* the prekey records on disk, by dictionary and id
  saved,     \* how many of this attempt's four were saved
  sent,      \* external: the requests of this attempt that the server got
  devices    \* external: the devices it has linked

setupVars == <<pc, attempt, message, words, login, answer>>
diskVars == <<account, records, saved>>
serverVars == <<sent, devices>>
vars == <<setupVars, diskVars, serverVars, trngVars>>

Me == "main"

ASSUME LinkingAssumption ==
  /\ Me \in Threads /\ MaxAttempts \in Nat
  /\ DeviceName \in Seq(STRING) /\ BodyLens \subseteq Nat
  /\ RegistrationWords \subseteq Nat /\ PreKeyWords \subseteq Nat

\* The draws of Account::link in their order: what for and how many bytes.
Draws == <<[of |-> "password", len |-> 18], [of |-> "registration", len |-> 4],
           [of |-> "registration", len |-> 4], [of |-> "ephemeral", len |-> 32],
           [of |-> "id", len |-> 4], [of |-> "key", len |-> 32],
           [of |-> "id", len |-> 4], [of |-> "key", len |-> 32],
           [of |-> "id", len |-> 4], [of |-> "id", len |-> 4]>>
RegistrationDraws == <<2, 3>>
PreKeyDraws == <<5, 7, 9, 10>>

Body ==
  RequestBody(message, DeviceName, [i \in 1..2 |-> words[RegistrationDraws[i]]],
              [i \in 1..4 |-> words[PreKeyDraws[i]]])

Dictionary(i) == IF i <= 2 THEN "signed" ELSE "kyber"

NoAccount == [state |-> "none", attempt |-> 0]
FreshAccount == [state |-> "fresh", attempt |-> 0]
NoAnswer == [status |-> 0, id |-> 0, form |-> "none"]

Init ==
  /\ TrngInit
  /\ pc = "idle" /\ attempt = 0 /\ message = None /\ words = <<>>
  /\ login = "suffixed" /\ answer = NoAnswer
  /\ account = NoAccount /\ records = [d \in {"signed", "kyber"} |-> <<>>]
  /\ saved = 0
  /\ sent = {} /\ devices = {}

-----------------------------------------------------------------------------
(* Ends of an attempt.                                                      *)

\* Manager::link returns Err: SigChat::account_link deletes the account.
FailErr ==
  /\ pc' = "idle" /\ account' = NoAccount /\ message' = None /\ words' = <<>>
  /\ answer' = NoAnswer
  /\ UNCHANGED <<attempt, login, records, saved>>

\* Account::link fails: Manager::link makes it Ok(false), the account stays.
FailFalse ==
  /\ pc' = "idle" /\ message' = None /\ words' = <<>> /\ answer' = NoAnswer
  /\ UNCHANGED <<attempt, login, diskVars>>

Goto(step) ==
  /\ pc' = step
  /\ UNCHANGED <<attempt, message, words, login, answer, diskVars>>

-----------------------------------------------------------------------------
(* Manager::link.                                                           *)

\* The dialogue resets the account and connects.
Start ==
  /\ pc = "idle" /\ attempt < MaxAttempts /\ account.state # "linked"
  /\ attempt' = attempt + 1 /\ account' = FreshAccount /\ pc' = "address" /\ sent' = {}
  /\ saved' = 0
  /\ UNCHANGED <<message, words, login, answer, records, devices, trngVars>>

\* The address frame is read and decoded, or cannot be.
Addresses == {[ws |-> "ok", address |-> "address"], [ws |-> "ok", address |-> None],
              [ws |-> "bad", address |-> None]}

ReadAddress ==
  /\ pc = "address"
  /\ \/ \E f \in Addresses : IF AddressDecodes(f) THEN Goto("keygen") ELSE FailErr
     \/ FailErr
  /\ UNCHANGED <<serverVars, trngVars>>

\* generate_identity_key_pair.
KeygenAsk ==
  /\ pc = "keygen" /\ Ask(Me, "v03", 32)
  /\ UNCHANGED <<setupVars, diskVars, serverVars>>

KeygenDone ==
  /\ pc = "keygen" /\ Return(Me)
  /\ Goto("scan") /\ UNCHANGED serverVars

\* The frames the session can hand over: the phone's, one for the key of an
\* earlier QR code, and frames with one fault in one of the layers.
Frames(k) ==
  LET good == PhoneFrame(k, PhoneMessage(k))
      messages ==
        {[good.body.msg EXCEPT ![field] = None] :
           field \in {"aciPub", "aciPriv", "pniPriv", "aci", "code", "profile"}}
        \cup {[good.body.msg EXCEPT !.profile = 31], [good.body.msg EXCEPT !.aciPriv = Empty]}
      bodies ==
        {[good.body EXCEPT !.len = n] : n \in BodyLens}
        \cup {[good.body EXCEPT !.version = 2], [good.body EXCEPT !.whole = FALSE],
              [good.body EXCEPT !.msg = None]}
        \cup {[good.body EXCEPT !.msg = m] : m \in messages}
  IN {PhoneFrame(j, PhoneMessage(j)) : j \in 1..k}
     \cup {[good EXCEPT !.ws = "bad"], [good EXCEPT !.env = "bad"], [good EXCEPT !.pub = None],
           [good EXCEPT !.pub = "bad"], [good EXCEPT !.body = None]}
     \cup {[good EXCEPT !.body = b] : b \in bodies}

\* The session ends without a frame (Closed, TimedOut, Cancelled, Error) or
\* with one, which is decoded and decrypted.
ScanFails ==
  /\ pc = "scan" /\ FailErr
  /\ UNCHANGED <<serverVars, trngVars>>

ScanFrame ==
  /\ pc = "scan"
  /\ \E f \in Frames(attempt) :
       \/ Outcome(attempt, f) = "accepted" /\ message' = Accepted(f) /\ pc' = "draw"
          /\ UNCHANGED <<attempt, words, login, answer, diskVars>>
       \/ Outcome(attempt, f) # "accepted"
          /\ IF Outcome(attempt, f) = "refused" THEN FailErr ELSE Goto("panic")
  /\ UNCHANGED <<serverVars, trngVars>>

-----------------------------------------------------------------------------
(* Account::link.                                                           *)

\* What Account::link has checked when it comes to its n-th draw.
Checked(n) ==
  /\ n = 1 => HasCodeAndProfile(message)
  /\ n = 4 => NameKeyDecodes(message)
  /\ n = 5 => AccessKeyDerives(message) /\ KeysDecode(message)

DrawAsk ==
  /\ pc = "draw" /\ Len(words) < Len(Draws) /\ Checked(Len(words) + 1)
  /\ Ask(Me, "v03", Draws[Len(words) + 1].len)
  /\ UNCHANGED <<setupVars, diskVars, serverVars>>

DrawRefused ==
  /\ pc = "draw" /\ Len(words) < Len(Draws) /\ ~Checked(Len(words) + 1)
  /\ FailFalse /\ UNCHANGED <<serverVars, trngVars>>

WordsOf(draw) ==
  IF draw.of = "registration" THEN RegistrationWords
  ELSE IF draw.of = "id" THEN PreKeyWords ELSE {0}

DrawDone ==
  /\ pc = "draw" /\ Len(words) < Len(Draws) /\ Return(Me)
  /\ \E w \in WordsOf(Draws[Len(words) + 1]) :
       /\ words' = Append(words, w)
       /\ pc' = IF Len(words') = Len(Draws) THEN "put" ELSE "draw"
  /\ login' = "suffixed"
  /\ UNCHANGED <<attempt, message, answer, diskVars, serverVars>>

\* put_devices_link and try_put: the request goes out.
Put ==
  /\ pc = "put"
  /\ pc' = "wait" /\ answer' = NoAnswer
  /\ sent' = sent \cup {[login |-> login, body |-> Body,
                         redeemed |-> \E d \in devices : d.code = message.code]}
  /\ UNCHANGED <<attempt, message, words, login, diskVars, devices, trngVars>>

\* External: the server links the device, once for each code, or refuses;
\* its answer gives the new id as a number or a string, or is cut off.
Serve ==
  /\ pc = "wait" /\ answer = NoAnswer
  /\ \/ /\ ~\E d \in devices : d.code = message.code
        /\ \E form \in {"number", "string", "garbled"} :
             LET id == 2 + Cardinality(devices)
             IN /\ devices' = devices \cup {[attempt |-> attempt, code |-> message.code, id |-> id,
                                             answered |-> form # "garbled"]}
                /\ answer' = [status |-> 200, id |-> id, form |-> form]
     \/ /\ \E status \in {403, 409} : answer' = [NoAnswer EXCEPT !.status = status]
        /\ UNCHANGED devices
  /\ pc' = "answered"
  /\ UNCHANGED <<attempt, message, words, login, diskVars, sent, trngVars>>

\* External: the connection breaks, before or after the server did its work.
Break ==
  /\ pc = "wait"
  /\ pc' = "answered" /\ answer' = [NoAnswer EXCEPT !.status = -1]
  /\ \/ UNCHANGED devices
     \/ /\ ~\E d \in devices : d.code = message.code
        /\ devices' = devices \cup {[attempt |-> attempt, code |-> message.code,
                                     id |-> 2 + Cardinality(devices), answered |-> FALSE]}
  /\ UNCHANGED <<attempt, message, words, login, diskVars, sent, trngVars>>

\* Mutant: a device id is a number.
ParsesNumber(a) == a.status = 200 /\ a.form = "number"

\* de_u32_from_str_or_num.
Parses(a) == a.status = 200 /\ a.form \in {"number", "string"}

\* Mutant: every failure is taken for a wrong form of the user name.
RetriesAny(a) == a.status # 200 /\ login = "suffixed"

\* Mutant: the second refusal is treated as the first.
RetriesForever(a) == a.status = 403

\* PermissionDenied is the one error that is tried again, without ".-1".
Retries(a) == a.status = 403 /\ login = "suffixed"

HandleAnswer ==
  /\ pc = "answered"
  /\ \/ Parses(answer) /\ Goto("store")
     \/ /\ Retries(answer)
        /\ login' = "bare" /\ pc' = "put"
        /\ UNCHANGED <<attempt, message, words, answer, diskVars>>
     \/ ~Parses(answer) /\ ~Retries(answer) /\ FailFalse
  /\ UNCHANGED <<serverVars, trngVars>>

\* The sets of Account::link.
Store ==
  /\ pc = "store"
  /\ account' = [state |-> "linked", attempt |-> attempt, id |-> answer.id,
                 aciPriv |-> message.aciPriv, pniPriv |-> message.pniPriv, aci |-> message.aci,
                 registrationIds |-> Body.registrationIds, name |-> Body.name]
  /\ pc' = "prekeys"
  /\ UNCHANGED <<attempt, message, words, login, answer, records, saved, serverVars, trngVars>>

\* A dictionary in which a record is saved, or whose save has failed behind the
\* delete of the old record: an empty one is as good as none.
With(dict, id, record) == [x \in DOMAIN dict \cup {id} |-> IF x = id THEN record ELSE dict[x]]
Without(dict, id) == [x \in DOMAIN dict \ {id} |-> dict[x]]

LinkReturns == pc' = "idle" /\ message' = None /\ words' = <<>> /\ answer' = NoAnswer

\* Mutant: the PNI's records are saved under the ids of the ACI's.
SavePreKeyOneId ==
  /\ pc = "prekeys"
  /\ LET i == saved + 1
         d == Dictionary(i)
         id == Body.keys[IF i \in {2, 4} THEN i - 1 ELSE i].id
     IN /\ records' = [records EXCEPT ![d] = With(@, id, <<attempt, i>>)]
        /\ saved' = i
        /\ IF i = 4 THEN LinkReturns ELSE UNCHANGED <<pc, message, words, answer>>
  /\ UNCHANGED <<attempt, login, account, serverVars, trngVars>>

\* save_to_pddb saves one record after another.  With the last one link returns
\* Ok(true); one that cannot be saved makes it Ok(false), and the account stays
\* linked.
SavePreKey ==
  /\ pc = "prekeys"
  /\ LET i == saved + 1
         d == Dictionary(i)
         id == Body.keys[i].id
     IN \/ /\ records' = [records EXCEPT ![d] = With(@, id, <<attempt, i>>)]
           /\ saved' = i
           /\ IF i = 4 THEN LinkReturns ELSE UNCHANGED <<pc, message, words, answer>>
        \/ /\ records' \in {records, [records EXCEPT ![d] = Without(@, id)]}
           /\ LinkReturns /\ UNCHANGED saved
  /\ UNCHANGED <<attempt, login, account, serverVars, trngVars>>

-----------------------------------------------------------------------------
\* A step of the request for random bytes that thread t has under way.
Trng_(t) == TrngStep(t) /\ UNCHANGED <<setupVars, diskVars, serverVars>>

\* The other threads ask for random bytes as they like.
Others ==
  /\ \E t \in Threads \ {Me} :
       Return(t) \/ \E b \in Backends : \E n \in Lens[b] : Ask(t, b, n)
  /\ UNCHANGED <<setupVars, diskVars, serverVars>>

\* What the program does by itself, and what it waits for without a bound of
\* its own: the connection and its close, the user and the link session, the
\* server.
LinkStep ==
  \/ KeygenAsk \/ KeygenDone \/ DrawAsk \/ DrawRefused \/ DrawDone
  \/ Put \/ HandleAnswer \/ Store \/ SavePreKey

Scan == ScanFails \/ ScanFrame
Network == Serve \/ Break

Next ==
  \/ Start \/ ReadAddress \/ Scan \/ LinkStep \/ Network
  \/ Others \/ \E t \in Threads : Trng_(t)

Spec == Init /\ [][Next]_vars /\ WF_vars(LinkStep) /\ WF_vars(Trng_(Me))

-----------------------------------------------------------------------------
(* Properties.                                                              *)

\* The account on disk is the one the server linked in the attempt that
\* stored it, with the code of that attempt's QR code: nothing of a frame
\* that was meant for another key gets through (decrypt, Account::link).
StoredIsLinked ==
  account.state = "linked" =>
    /\ \E d \in devices : d.attempt = account.attempt /\ d.code = account.attempt /\ d.id = account.id
    /\ \E r \in sent : r.body.registrationIds = account.registrationIds /\ r.body.name = account.name

\* A request is repeated only after the server refused the first one: a code
\* that it may have redeemed is not presented again (put_devices_link).
NoCodeSentTwice == \A r \in sent : ~r.redeemed

\* A device that the server has linked and whose answer arrived is not
\* forgotten: at rest its account is on disk (LinkDeviceResponse).
AnsweredIsStored ==
  pc = "idle" => \A d \in devices :
    d.answered => account.state = "linked" /\ account.attempt = d.attempt

\* What is sent passes the server's validators and the phone can read the
\* name in it (generate_prekeys, build_account_attributes,
\* encrypt_device_name).
SentIsValid == \A r \in sent : ValidRequest(r.body, DeviceName)

\* A record that was saved is on disk under the id the server hands out, also
\* when a later save fails, unless a later key of this request has the same id
\* in the same dictionary: that one's record, or its failing save, takes its
\* place.  So when link returns Ok(true), with all four saved, each id has the
\* record of the last key that drew it (save_to_pddb).
SameId(body, i, j) == Dictionary(j) = Dictionary(i) /\ body.keys[j].id = body.keys[i].id

UploadedKeysOnDisk ==
  account.state = "linked" =>
    \A r \in sent : \A i \in 1..saved :
      LET dict == records[Dictionary(i)]
          id == r.body.keys[i].id
      IN (\A j \in (i + 1)..4 : ~SameId(r.body, i, j)) =>
           id \in DOMAIN dict /\ dict[id] = <<account.attempt, i>>

\* No frame, however short or wrong, makes a slice of its body panic.
NeverPanics == pc # "panic"

\* An attempt ends, or it waits for ever for somebody else: for the connection,
\* for the user and the phone, for the server's answer.  Nothing it does by
\* itself goes round in circles.
AttemptEnds ==
  \/ []<>(pc \in {"idle", "panic"})
  \/ <>[](pc = "address") \/ <>[](pc = "scan") \/ <>[](pc = "wait")
=============================================================================
