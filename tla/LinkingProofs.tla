---------------------------- MODULE LinkingProofs ----------------------------
(***************************************************************************)
(* The safety properties of Linking, for every number of attempts, every   *)
(* device name, every word of the rng and every length of a broken body.   *)
(*                                                                         *)
(* The invariant has parts, each proved from the ones before it: Typed,    *)
(* Asking (what main asks the TRNG for), Drawn (the checks a message has   *)
(* passed after so many draws), Redeeming (when a code can have been       *)
(* redeemed), Storing (what the answer and the disk hold of it) and        *)
(* Saving (how far the four records are).                                  *)
(***************************************************************************)
EXTENDS Linking, TrngFillProofs

-----------------------------------------------------------------------------
(* The draws.                                                               *)

Typed == attempt \in Nat /\ words \in Seq(Nat)

LEMMA DrawsFact == Len(Draws) = 10 /\ \A i \in 1..10 : Draws[i].len \in Nat
<1> QED BY DEF Draws

LEMMA WordsAreNat == \A draw : WordsOf(draw) \subseteq Nat
<1> QED BY LinkingAssumption DEF WordsOf

\* The steps that touch neither the dialogue, nor the disk, nor the server.
Aside == Others \/ (\E t \in Threads : Trng_(t)) \/ KeygenAsk \/ DrawAsk

LEMMA AsideChanges == Aside => UNCHANGED <<setupVars, diskVars, serverVars>>
<1> QED BY DEF Aside, Others, Trng_, KeygenAsk, DrawAsk

\* Next, one step of the dialogue after another.
Dialogue ==
  \/ Start \/ ReadAddress \/ KeygenDone \/ ScanFails \/ ScanFrame \/ DrawRefused \/ DrawDone
  \/ Put \/ Serve \/ Break \/ HandleAnswer \/ Store \/ SavePreKey

LEMMA NextCases == [Next]_vars => Dialogue \/ UNCHANGED <<setupVars, diskVars, serverVars>>
<1> QED BY AsideChanges DEF Next, LinkStep, Scan, Network, Dialogue, Aside, vars

\* A record that is saved, or fails, ends link or leaves the dialogue where it is.
LEMMA SavePreKeyChanges ==
  SavePreKey =>
    /\ pc = "prekeys" /\ UNCHANGED <<attempt, login, account, serverVars, trngVars>>
    /\ (pc' = "idle" /\ words' = <<>>) \/ UNCHANGED <<pc, message, words, answer>>
<1> QED BY DEF SavePreKey, LinkReturns

LEMMA TypedInit == Init => Typed
<1> QED BY DEF Init, Typed

LEMMA TypedNext ==
  ASSUME Typed, [Next]_vars
  PROVE  Typed'
<1>1. CASE Start
  BY <1>1 DEF Start, Typed
<1>2. CASE DrawDone
  <2>1. PICK w : w \in Nat /\ words' = Append(words, w)
    BY <1>2, WordsAreNat DEF DrawDone
  <2> QED BY <1>2, <2>1 DEF DrawDone, Typed
<1>3. CASE attempt' = attempt /\ words' \in {words, <<>>}
  <2>1. <<>> \in Seq(Nat)
    OBVIOUS
  <2> QED BY <1>3, <2>1 DEF Typed
<1>4. CASE Dialogue /\ ~Start /\ ~DrawDone
  BY <1>3, <1>4, SavePreKeyChanges DEF Dialogue, ReadAddress, KeygenDone, ScanFails, ScanFrame,
    DrawRefused, Put, Serve, Break, HandleAnswer, Store, Goto, FailErr, FailFalse
<1>5. CASE UNCHANGED <<setupVars, diskVars, serverVars>>
  BY <1>3, <1>5 DEF setupVars
<1> QED BY <1>1, <1>2, <1>4, <1>5, NextCases

-----------------------------------------------------------------------------
(* The random numbers: Linking asks as TrngFill does.                       *)

\* Every step is a step of the requests or leaves them alone.
LEMMA TrngPart ==
  ASSUME IInv, Typed, [Next]_vars
  PROVE  IInv'
<1> USE LinkingAssumption
<1>1. CASE Others
  <2>1. PICK t \in Threads \ {Me} : Return(t) \/ \E b \in Backends : \E n \in Lens[b] : Ask(t, b, n)
    BY <1>1 DEF Others
  <2>2. [TrngNext]_trngVars
    BY <2>1 DEF TrngNext
  <2> QED BY <2>2, NextIInv
<1>2. CASE \E t \in Threads : Trng_(t)
  <2>1. [TrngNext]_trngVars
    BY <1>2 DEF Trng_, TrngNext
  <2> QED BY <2>1, NextIInv
<1>3. CASE KeygenAsk
  <2>1. Ask(Me, "v03", 32)
    BY <1>3 DEF KeygenAsk
  <2> QED BY <2>1, AskIInv DEF Backends
<1>4. CASE KeygenDone
  <2>1. Return(Me)
    BY <1>4 DEF KeygenDone
  <2> QED BY <2>1, StepIInv
<1>5. CASE DrawAsk
  <2>1. Len(words) \in Nat /\ Len(words) < 10
    BY <1>5, DrawsFact DEF DrawAsk, Typed
  <2> DEFINE n == Len(words) + 1
  <2>2. n \in 1..10
    BY <2>1
  <2>3. Draws[n].len \in Nat
    <3> HIDE DEF n
    <3> QED BY <2>2, DrawsFact
  <2>4. Ask(Me, "v03", Draws[n].len)
    BY <1>5 DEF DrawAsk
  <2> QED BY <2>3, <2>4, AskIInv DEF Backends
<1>6. CASE DrawDone
  <2>1. Return(Me)
    BY <1>6 DEF DrawDone
  <2> QED BY <2>1, StepIInv
<1>7. CASE UNCHANGED trngVars
  BY <1>7, NextIInv
<1>8. CASE Start \/ ReadAddress \/ ScanFails \/ ScanFrame \/ DrawRefused \/ Put \/ Network
           \/ HandleAnswer \/ Store \/ SavePreKey
  BY <1>8, <1>7, SavePreKeyChanges DEF Start, ReadAddress, ScanFails, ScanFrame, DrawRefused, Put,
       Network, Serve, Break, HandleAnswer, Store
<1>9. CASE UNCHANGED vars
  BY <1>9, <1>7 DEF vars
<1> QED BY <1>1, <1>2, <1>3, <1>4, <1>5, <1>6, <1>8, <1>9 DEF Next, LinkStep, Scan

\* What main has asked for it waits for, and the draws of Account::link are
\* asked for behind their checks.
Asking ==
  /\ req[Me].pc # "idle" => pc \in {"keygen", "draw"}
  /\ pc = "draw" /\ req[Me].pc # "idle" => Checked(Len(words) + 1)

LEMMA AskingInit == Init => Asking
<1> QED BY LinkingAssumption DEF Init, TrngInit, Asking, NoRequest

LEMMA ReturnIdles == IInv /\ Return(Me) => req'[Me].pc = "idle"
<1> QED BY LinkingAssumption DEF IInv, TrngTypeOK, Return, NoRequest

LEMMA AskingNext ==
  ASSUME IInv, Asking, [Next]_vars
  PROVE  Asking'
<1> USE LinkingAssumption
<1>0. CASE req'[Me].pc = "idle"
  BY <1>0 DEF Asking
<1>1. CASE Dialogue
  <2>1. CASE KeygenDone \/ DrawDone
    BY <2>1, <1>0, ReturnIdles DEF KeygenDone, DrawDone
  <2>2. CASE DrawRefused
    BY <2>2, <1>0 DEF DrawRefused, Asking, trngVars
  <2>3. CASE Dialogue /\ ~KeygenDone /\ ~DrawDone /\ ~DrawRefused
    <3>1. pc \notin {"keygen", "draw"} /\ req' = req
      BY <2>3, SavePreKeyChanges DEF Dialogue, Start, ReadAddress, ScanFails, ScanFrame, Put, Serve,
        Break, HandleAnswer, Store, trngVars
    <3> QED BY <3>1, <1>0 DEF Asking
  <2> QED BY <1>1, <2>1, <2>2, <2>3
<1>2. CASE UNCHANGED <<setupVars, diskVars, serverVars>> /\ (req[Me].pc = "idle" => req'[Me].pc = "idle")
  BY <1>2 DEF setupVars, Asking, Checked, HasCodeAndProfile, NameKeyDecodes, AccessKeyDerives, KeysDecode
<1>3. CASE KeygenAsk
  BY <1>3 DEF KeygenAsk, setupVars, Asking
<1>4. CASE DrawAsk
  BY <1>4 DEF DrawAsk, setupVars, Asking, Checked, HasCodeAndProfile, NameKeyDecodes, AccessKeyDerives, KeysDecode
<1>5. CASE Others
  <2>1. PICK t \in Threads \ {Me} : Return(t) \/ \E b \in Backends : \E n \in Lens[b] : Ask(t, b, n)
    BY <1>5 DEF Others
  <2>2. req'[Me] = req[Me]
    BY <2>1 DEF Return, Ask, IInv, TrngTypeOK
  <2> QED BY <1>2, <1>5, <2>2 DEF Others
<1>6. CASE \E t \in Threads : Trng_(t)
  <2>1. PICK t \in Threads : Trng_(t)
    BY <1>6
  <2>2. t = Me => req[Me].pc # "idle"
    BY <2>1 DEF Trng_, TrngStep, EnsureConn, StoreConn, Fill
  <2>3. t # Me => req'[Me] = req[Me]
    BY <2>1 DEF Trng_, TrngStep, EnsureConn, StoreConn, Fill, IInv, TrngTypeOK
  <2> QED BY <1>2, <2>1, <2>2, <2>3 DEF Trng_
<1>7. CASE UNCHANGED vars
  BY <1>2, <1>7 DEF vars, trngVars
<1> QED BY <1>1, <1>3, <1>4, <1>5, <1>6, <1>7 DEF Next, LinkStep, Scan, Network, Dialogue

-----------------------------------------------------------------------------
(* The frames.                                                              *)

PhoneMessages(k) ==
  [number : {"number"}, aciPub : {"aci", None}, aciPriv : {"aci", None, Empty},
   pniPub : {"pni"}, pniPriv : {"pni", None}, aci : {"aci uuid", None}, pni : {"pni uuid"},
   code : {k, None}, profile : {32, 31, None}, aep : {"aep"}]

\* A body has a length, and one under the key k holds the message for k
\* with at most one fault.
BodyFact(k, b) ==
  /\ b.len \in Nat
  /\ b.key = k => b.msg \in PhoneMessages(k) \cup {None}

LEMMA FramesFact ==
  ASSUME NEW k \in Nat, NEW f \in Frames(k)
  PROVE  f.body = None \/ BodyFact(k, f.body)
<1> DEFINE good == PhoneFrame(k, PhoneMessage(k))
           body == PhoneBody(k, PhoneMessage(k))
           messages == {[good.body.msg EXCEPT ![field] = None] :
                          field \in {"aciPub", "aciPriv", "pniPriv", "aci", "code", "profile"}}
                       \cup {[good.body.msg EXCEPT !.profile = 31], [good.body.msg EXCEPT !.aciPriv = Empty]}
           bodies == {[good.body EXCEPT !.len = n] : n \in BodyLens}
                     \cup {[good.body EXCEPT !.version = 2], [good.body EXCEPT !.whole = FALSE],
                           [good.body EXCEPT !.msg = None]}
                     \cup {[good.body EXCEPT !.msg = m] : m \in messages}
<1>1. good.body = body /\ good.body.msg = PhoneMessage(k)
  BY DEF PhoneFrame, PhoneBody
<1>2. PhoneMessage(k) \in PhoneMessages(k)
  BY DEF PhoneMessage, PhoneMessages
<1>3. messages \subseteq PhoneMessages(k)
  <2>1. \A field \in {"aciPub", "aciPriv", "pniPriv", "aci", "code", "profile"} :
          [PhoneMessage(k) EXCEPT ![field] = None] \in PhoneMessages(k)
    BY DEF PhoneMessage, PhoneMessages
  <2>2. /\ [PhoneMessage(k) EXCEPT !.profile = 31] \in PhoneMessages(k)
        /\ [PhoneMessage(k) EXCEPT !.aciPriv = Empty] \in PhoneMessages(k)
    BY DEF PhoneMessage, PhoneMessages
  <2> QED BY <1>1, <2>1, <2>2
<1>4. \A b \in bodies \cup {body} : BodyFact(k, b)
  <2> HIDE DEF messages
  <2>1. body = [len |-> 81, version |-> 1, key |-> k, whole |-> TRUE, msg |-> PhoneMessage(k)]
    BY DEF PhoneBody, VersionBytes, IvBytes, BlockBytes, MacBytes
  <2>2. BodyFact(k, body)
    BY <2>1, <1>2 DEF BodyFact
  <2>3. \A n \in BodyLens : BodyFact(k, [body EXCEPT !.len = n])
    BY <2>1, <1>2, LinkingAssumption DEF BodyFact
  <2>4. /\ BodyFact(k, [body EXCEPT !.version = 2]) /\ BodyFact(k, [body EXCEPT !.whole = FALSE])
        /\ BodyFact(k, [body EXCEPT !.msg = None])
    BY <2>1, <1>2 DEF BodyFact
  <2>5. \A m \in messages : BodyFact(k, [body EXCEPT !.msg = m])
    BY <2>1, <1>3 DEF BodyFact
  <2> HIDE DEF good, body
  <2> QED BY <1>1, <2>2, <2>3, <2>4, <2>5
<1>5. CASE \E j \in 1..k : f = PhoneFrame(j, PhoneMessage(j))
  <2>1. PICK j \in 1..k : f = PhoneFrame(j, PhoneMessage(j))
    BY <1>5
  <2>2. f.body = [len |-> 81, version |-> 1, key |-> j, whole |-> TRUE, msg |-> PhoneMessage(j)]
    BY <2>1 DEF PhoneFrame, PhoneBody, VersionBytes, IvBytes, BlockBytes, MacBytes
  <2> QED BY <2>2, <1>2 DEF BodyFact
<1>6. CASE f \in {[good EXCEPT !.ws = "bad"], [good EXCEPT !.env = "bad"], [good EXCEPT !.pub = None],
                   [good EXCEPT !.pub = "bad"], [good EXCEPT !.body = None]}
  <2>1. good = [ws |-> "ok", env |-> "ok", pub |-> "ok", body |-> body]
    BY DEF PhoneFrame
  <2>2. f.body \in {body, None}
    <3> HIDE DEF good, body
    <3> QED BY <1>6, <2>1
  <2> QED BY <2>2, <1>4
<1>7. CASE \E b \in bodies : f = [good EXCEPT !.body = b]
  <2>1. good = [ws |-> "ok", env |-> "ok", pub |-> "ok", body |-> body]
    BY DEF PhoneFrame
  <2>2. f.body \in bodies
    <3> HIDE DEF good, body, bodies
    <3> QED BY <1>7, <2>1
  <2> QED BY <2>2, <1>4
<1>8. Frames(k) = {PhoneFrame(j, PhoneMessage(j)) : j \in 1..k}
                  \cup {[good EXCEPT !.ws = "bad"], [good EXCEPT !.env = "bad"], [good EXCEPT !.pub = None],
                        [good EXCEPT !.pub = "bad"], [good EXCEPT !.body = None]}
                  \cup {[good EXCEPT !.body = b] : b \in bodies}
  BY DEF Frames
<1> QED BY <1>5, <1>6, <1>7, <1>8

\* The minimum length keeps every slice of the body in its bounds, whatever
\* the length (PrimaryProvisioningCipher::decrypt).
LEMMA NoFramePanics ==
  ASSUME NEW k \in Nat, NEW f \in Frames(k)
  PROVE  Outcome(k, f) # "panicked"
<1>1. CASE f.body = None
  BY <1>1 DEF Outcome, EnvelopeDecodes
<1>2. CASE f.body.len \in Nat
  <2>1. LongEnough(f.body) => Sliceable(f.body)
    BY <1>2 DEF LongEnough, Sliceable, VersionBytes, IvBytes, BlockBytes, MacBytes
  <2> QED BY <2>1 DEF Outcome
<1> QED BY <1>1, <1>2, FramesFact DEF BodyFact

\* What Account::link may rely on of a message it is given.
FromPhone(m, k) ==
  m.aciPriv \in {"aci", Empty} /\ m.pniPriv \in {"pni", Empty} /\ m.code \in {k, None}

\* Only a message for the key of this attempt is accepted.
LEMMA AcceptedFromPhone ==
  ASSUME NEW k \in Nat, NEW f \in Frames(k), Outcome(k, f) = "accepted"
  PROVE  FromPhone(Accepted(f), k)
<1>1. f.body # None /\ f.body.key = k /\ f.body.msg # None /\ f.body.msg.aciPriv # None
  BY DEF Outcome, EnvelopeDecodes, Authentic, MessageDecodes
<1>2. f.body.msg \in PhoneMessages(k)
  BY <1>1, FramesFact DEF BodyFact
<1> DEFINE m == f.body.msg
<1>3. /\ Accepted(f).aciPriv = m.aciPriv /\ Accepted(f).code = m.code
      /\ Accepted(f).pniPriv = OrDefault(m.pniPriv)
  BY <1>2 DEF Accepted, PhoneMessages
<1> QED BY <1>1, <1>2, <1>3 DEF FromPhone, PhoneMessages, OrDefault

-----------------------------------------------------------------------------
(* The checks of Account::link.                                             *)

Behind == {"wait", "answered", "store", "prekeys"}

\* The message was meant for this attempt and has passed the checks that
\* come before the draws so far; behind the last draw it has passed all.
Drawn ==
  /\ pc \in {"draw", "put"} \cup Behind =>
       /\ FromPhone(message, attempt) /\ Len(words) <= 10
       /\ \A n \in 1..Len(words) : Checked(n)
  /\ pc \in {"put"} \cup Behind => Len(words) = 10
  /\ pc \in {"idle", "address", "keygen", "scan"} => words = <<>>

LEMMA DrawnInit == Init => Drawn
<1> QED BY DEF Init, Drawn, Behind

LEMMA CheckedKept == UNCHANGED message => \A n : Checked(n)' <=> Checked(n)
<1> QED BY DEF Checked, HasCodeAndProfile, NameKeyDecodes, AccessKeyDerives, KeysDecode

LEMMA DrawnNext ==
  ASSUME IInv, Typed, Asking, Drawn, [Next]_vars
  PROVE  Drawn'
<1> USE DEF Behind
<1>1. CASE ScanFrame /\ pc' = "draw"
  <2>1. PICK f \in Frames(attempt) : Outcome(attempt, f) = "accepted" /\ message' = Accepted(f)
    BY <1>1 DEF ScanFrame, Goto, FailErr
  <2>2. FromPhone(message', attempt)
    BY <2>1, AcceptedFromPhone DEF Typed
  <2>3. words' = <<>> /\ attempt' = attempt /\ Len(<<>>) = 0
    BY <1>1 DEF ScanFrame, Drawn, Goto, FailErr
  <2> QED BY <1>1, <2>2, <2>3 DEF Drawn, FromPhone
<1>2. CASE DrawDone
  <2>1. PICK w \in Nat : words' = Append(words, w)
    BY <1>2, WordsAreNat DEF DrawDone
  <2>2. Len(words) \in Nat /\ Len(words) < 10 /\ Len(words') = Len(words) + 1
    BY <1>2, <2>1, DrawsFact DEF DrawDone, Typed
  <2>3. Checked(Len(words) + 1)
    BY <1>2 DEF DrawDone, Return, Asking
  <2>4. \A n \in 1..Len(words') : Checked(n)
    BY <1>2, <2>2, <2>3 DEF DrawDone, Drawn
  <2>5. \A n \in 1..Len(words') : Checked(n)'
    BY <1>2, <2>4, CheckedKept DEF DrawDone
  <2>6. pc' \in {"draw", "put"} /\ (pc' = "put" => Len(words') = 10)
    BY <1>2, DrawsFact DEF DrawDone
  <2>7. FromPhone(message, attempt)'
    BY <1>2 DEF DrawDone, Drawn, FromPhone
  <2> QED BY <2>2, <2>5, <2>6, <2>7 DEF Drawn
<1>3. CASE /\ UNCHANGED <<message, attempt, words>>
           /\ \/ pc' = pc \/ pc' = "panic"
              \/ pc \in {"put"} \cup Behind /\ pc' \in {"put"} \cup Behind
              \/ pc \in {"address", "keygen"} /\ pc' \in {"keygen", "scan"}
  BY <1>3, CheckedKept DEF Drawn, FromPhone
<1>4. CASE pc' \in {"idle", "address"} /\ words' = <<>>
  BY <1>4 DEF Drawn
<1>5. CASE Dialogue /\ ~(ScanFrame /\ pc' = "draw") /\ ~DrawDone
  <2>1. CASE Start
    BY <2>1, <1>4 DEF Start, Drawn
  <2>2. CASE ReadAddress \/ KeygenDone
    BY <2>2, <1>3, <1>4 DEF ReadAddress, KeygenDone, Goto, FailErr
  <2>3. CASE ScanFails \/ (ScanFrame /\ pc' # "draw")
    BY <2>3, <1>3, <1>4 DEF ScanFails, ScanFrame, Goto, FailErr
  <2>4. CASE DrawRefused \/ SavePreKey
    BY <2>4, <1>3, <1>4, SavePreKeyChanges DEF DrawRefused, FailFalse
  <2>5. CASE Put \/ Serve \/ Break \/ HandleAnswer \/ Store
    BY <2>5, <1>3, <1>4 DEF Put, Serve, Break, HandleAnswer, Store, Goto, FailFalse
  <2> QED BY <1>5, <2>1, <2>2, <2>3, <2>4, <2>5 DEF Dialogue
<1>6. CASE UNCHANGED <<setupVars, diskVars, serverVars>>
  BY <1>3, <1>6 DEF setupVars
<1> QED BY <1>1, <1>2, <1>5, <1>6, NextCases

\* Behind the last draw: the code of this attempt, the keys of the account.
LEMMA ReadyMessage ==
  ASSUME Drawn, pc \in {"put"} \cup Behind
  PROVE  /\ message.code = attempt /\ message.code # None /\ message.profile = 32
         /\ message.aciPriv = "aci" /\ message.pniPriv = "pni"
<1>1. FromPhone(message, attempt) /\ Len(words) = 10 /\ \A n \in 1..Len(words) : Checked(n)
  BY DEF Drawn
<1>2. Checked(1) /\ Checked(5)
  BY <1>1
<1> QED BY <1>1, <1>2 DEF FromPhone, Checked, HasCodeAndProfile, AccessKeyDerives, KeysDecode

-----------------------------------------------------------------------------
(* The request.                                                             *)

\* The phone decrypts what encrypt_device_name made of any name.
LEMMA NameIsRead ==
  ASSUME NEW name \in Seq(STRING), NEW ephemeral, NEW aci
  PROVE  DecryptedName(EncryptDeviceName(name, ephemeral, aci), aci) = name
<1> DEFINE secret == Agreement(ephemeral, aci)
           siv == Hmac(Hmac(secret, "auth"), name)
           key == Hmac(Hmac(secret, "cipher"), siv)
           n == EncryptDeviceName(name, ephemeral, aci)
           text == [i \in DOMAIN n.ciphertext |-> n.ciphertext[i].block]
<1>1. n.ephemeral = ephemeral /\ n.siv = siv /\ n.ciphertext = Ctr(key, name)
  BY DEF EncryptDeviceName
<1>2. text = name
  <2> HIDE DEF key, n
  <2>1. DOMAIN n.ciphertext = DOMAIN name /\ \A i \in DOMAIN name : n.ciphertext[i].block = name[i]
    BY <1>1 DEF Ctr
  <2>2. name = [i \in DOMAIN name |-> name[i]]
    OBVIOUS
  <2> QED BY <2>1, <2>2
<1>3. DecryptedName(n, aci) =
        IF n.ciphertext = Ctr(Hmac(Hmac(Agreement(n.ephemeral, aci), "cipher"), n.siv), text)
           /\ n.siv = Hmac(Hmac(Agreement(n.ephemeral, aci), "auth"), text)
        THEN text ELSE None
  BY DEF DecryptedName
<1>4. DecryptedName(n, aci) = name
  <2> HIDE DEF n, text
  <2> QED BY <1>1, <1>2, <1>3
<1> QED BY <1>4

\* Every word of the rng gives ids in the ranges the server asks for.
LEMMA IdRanges ==
  ASSUME NEW word \in Nat
  PROVE  /\ 1 <= RegistrationId(word) /\ RegistrationId(word) <= 16380
         /\ 1 <= PreKeyId(word) /\ PreKeyId(word) < 256 * 256 * 256
<1>1. \A m \in Nat \ {0} : (word % m) + 1 \in 1..m
  OBVIOUS
<1>2. RegistrationMax = 16380 /\ MediumMax = 256 * 256 * 256 - 1 /\ MediumMax \in Nat \ {0}
  BY DEF RegistrationMax, MediumMax
<1>3. RegistrationId(word) = (word % RegistrationMax) + 1 /\ PreKeyId(word) = (word % MediumMax) + 1
  BY DEF RegistrationId, PreKeyId
<1> QED BY <1>1, <1>2, <1>3

LEMMA BodyIsValid ==
  ASSUME Typed, Drawn, pc \in {"put"} \cup Behind
  PROVE  ValidRequest(Body, DeviceName)
<1>1. \A i \in 1..10 : words[i] \in Nat
  BY DEF Typed, Drawn
<1>2. /\ Body.code = message.code /\ Body.access = message.profile
      /\ Body.name = EncryptDeviceName(DeviceName, "ephemeral", message.aciPriv)
      /\ \A i \in 1..2 : Body.registrationIds[i] = RegistrationId(words[RegistrationDraws[i]])
      /\ \A i \in 1..4 : Body.keys[i] = [id |-> PreKeyId(words[PreKeyDraws[i]]),
                                          signer |-> Signer(message, PreKeyKinds[i])]
  BY DEF Body, RequestBody
<1>3. /\ \A i \in 1..2 : RegistrationDraws[i] \in 1..10
      /\ \A i \in 1..4 : PreKeyDraws[i] \in 1..10
  BY DEF RegistrationDraws, PreKeyDraws
<1>4. Body.code # None /\ Body.access = 32
  BY <1>2, ReadyMessage
<1>5. \A i \in 1..2 : 1 <= Body.registrationIds[i] /\ Body.registrationIds[i] <= 16380
  <2> SUFFICES ASSUME NEW i \in 1..2 PROVE 1 <= Body.registrationIds[i] /\ Body.registrationIds[i] <= 16380
    OBVIOUS
  <2>1. words[RegistrationDraws[i]] \in Nat
    BY <1>1, <1>3
  <2> QED BY <2>1, <1>2, IdRanges
<1>6. \A i \in 1..4 : 1 <= Body.keys[i].id /\ Body.keys[i].id < 256 * 256 * 256
  <2> SUFFICES ASSUME NEW i \in 1..4 PROVE 1 <= Body.keys[i].id /\ Body.keys[i].id < 256 * 256 * 256
    OBVIOUS
  <2>1. words[PreKeyDraws[i]] \in Nat
    BY <1>1, <1>3
  <2> QED BY <2>1, <1>2, IdRanges
<1>7. \A i \in 1..4 : Body.keys[i].signer = IF i \in {1, 3} THEN "aci" ELSE "pni"
  BY <1>2, ReadyMessage DEF Signer, PreKeyKinds
<1>8. DecryptedName(Body.name, "aci") = DeviceName
  BY <1>2, ReadyMessage, NameIsRead, LinkingAssumption
<1> QED BY <1>4, <1>5, <1>6, <1>7, <1>8 DEF ValidRequest

-----------------------------------------------------------------------------
(* The requests the server gets.                                            *)

\* Up to a request that may redeem it, no device has the code; every request
\* of the attempt is valid, has an unused code and, behind the last draw, is
\* the one that would be sent again.
Unredeemed ==
  \/ pc \in {"address", "keygen", "scan", "draw", "put", "wait"}
  \/ pc = "answered" /\ answer.status \in {403, 409}

Redeeming ==
  /\ \A d \in devices : d.code \in Nat /\ d.code <= attempt /\ d.attempt = d.code
  /\ Unredeemed => \A d \in devices : d.code # attempt
  /\ \A r \in sent : ~r.redeemed /\ ValidRequest(r.body, DeviceName)
  /\ pc \in {"address", "keygen", "scan", "draw"} => sent = {}
  /\ pc \in {"put"} \cup Behind => \A r \in sent : r.body = Body
  /\ pc \in Behind => sent # {}

LEMMA RedeemingInit == Init => Redeeming
<1> QED BY DEF Init, Redeeming, Unredeemed, Behind

LEMMA BodyKept == UNCHANGED <<message, words>> => Body' = Body
<1> QED BY DEF Body

LEMMA RedeemingNext ==
  ASSUME Typed, Drawn, Redeeming, [Next]_vars
  PROVE  Redeeming'
<1> USE DEF Behind, Unredeemed
<1>1. CASE Start
  BY <1>1 DEF Start, Redeeming, Typed
<1>2. CASE Put
  <2>1. Body' = Body /\ ValidRequest(Body, DeviceName)
    BY <1>2, BodyKept, BodyIsValid DEF Put
  <2>2. ~\E d \in devices : d.code = message.code
    BY <1>2, ReadyMessage DEF Put, Redeeming
  <2>3. \A r \in sent' : r \in sent \/ (r.body = Body /\ ~r.redeemed)
    BY <1>2, <2>2 DEF Put
  <2>4. \A r \in sent' : ~r.redeemed /\ ValidRequest(r.body, DeviceName) /\ r.body = Body'
    BY <1>2, <2>1, <2>3 DEF Put, Redeeming
  <2>5. sent' # {}
    BY <1>2 DEF Put
  <2> QED BY <1>2, <2>4, <2>5 DEF Put, Redeeming
<1>3. CASE Serve \/ Break
  <2>1. message.code = attempt /\ attempt \in Nat /\ pc = "wait"
    BY <1>3, ReadyMessage DEF Serve, Break, Typed
  <2>2. UNCHANGED <<message, words, attempt, sent>> /\ pc' = "answered" /\ Body' = Body
    BY <1>3, BodyKept DEF Serve, Break
  <2>3. \A d \in devices' : d \in devices \/ (d.code = message.code /\ d.attempt = attempt)
    BY <1>3 DEF Serve, Break
  <2>4. answer'.status \in {403, 409} => devices' = devices
    BY <1>3 DEF Serve, Break, NoAnswer
  <2> QED BY <2>1, <2>2, <2>3, <2>4 DEF Redeeming
<1>4. CASE HandleAnswer
  <2>1. UNCHANGED <<attempt, sent, devices>>
    BY <1>4 DEF HandleAnswer, Goto, FailFalse, serverVars
  <2>2. CASE pc' = "put"
    BY <1>4, <2>1, <2>2, BodyKept DEF HandleAnswer, Goto, FailFalse, Retries, Redeeming
  <2>3. CASE pc' = "store"
    BY <1>4, <2>1, <2>3, BodyKept DEF HandleAnswer, Goto, FailFalse, Redeeming
  <2>4. CASE pc' = "idle"
    BY <2>1, <2>4 DEF Redeeming
  <2> QED BY <1>4, <2>2, <2>3, <2>4 DEF HandleAnswer, Goto, FailFalse
<1>5. CASE UNCHANGED <<attempt, sent, devices>> /\ pc' \in {"idle", "panic"}
  BY <1>5 DEF Redeeming
<1>6. CASE /\ UNCHANGED <<attempt, sent, devices>>
           /\ pc \in {"address", "keygen", "scan", "draw"} /\ pc' \in {"keygen", "scan", "draw", "put"}
  BY <1>6 DEF Redeeming
<1>7. CASE UNCHANGED <<attempt, sent, devices, message, words, pc, answer>>
  BY <1>7, BodyKept DEF Redeeming
<1>8. CASE Store
  BY <1>8, BodyKept DEF Store, Redeeming, serverVars
<1>9. CASE ReadAddress \/ KeygenDone \/ ScanFails \/ ScanFrame \/ DrawRefused \/ DrawDone \/ SavePreKey
  BY <1>9, <1>5, <1>6, <1>7, SavePreKeyChanges DEF ReadAddress, KeygenDone, ScanFails, ScanFrame,
    DrawRefused, DrawDone, Goto, FailErr, FailFalse, serverVars
<1>10. CASE UNCHANGED <<setupVars, diskVars, serverVars>>
  BY <1>7, <1>10 DEF setupVars, serverVars
<1> QED BY <1>1, <1>2, <1>3, <1>4, <1>8, <1>9, <1>10, NextCases DEF Dialogue

-----------------------------------------------------------------------------
(* The account and the prekeys on disk.                                     *)

IsLinked == account.state = "linked"

\* A device whose answer can be read is of this attempt and on its way to
\* the disk; an account there is the one of this attempt.
Storing ==
  /\ pc \in {"answered", "store"} /\ answer.status = 200 =>
       \E d \in devices : d.attempt = attempt /\ d.code = attempt /\ d.id = answer.id
  /\ pc = "store" => Parses(answer)
  /\ \A d \in devices : d.answered =>
       /\ d.attempt = attempt
       /\ (pc = "answered" /\ Parses(answer)) \/ pc = "store" \/ IsLinked
  /\ pc = "prekeys" => IsLinked
  /\ IsLinked => pc \in {"prekeys", "idle"} /\ account.attempt = attempt
  /\ StoredIsLinked

LEMMA StoringInit == Init => Storing
<1> QED BY DEF Init, Storing, StoredIsLinked, IsLinked, NoAccount

LEMMA StoringNext ==
  ASSUME Typed, Drawn, Redeeming, Storing, [Next]_vars
  PROVE  Storing'
<1> USE DEF IsLinked, Parses
<1>1. CASE Start
  BY <1>1 DEF Start, Storing, StoredIsLinked, FreshAccount
<1>2. CASE Serve
  <2>1. ~IsLinked /\ account' = account /\ pc' = "answered" /\ attempt' = attempt
        /\ message.code = attempt
    BY <1>2, ReadyMessage DEF Serve, Storing, diskVars, Behind
  <2>2. \A d \in devices : ~d.answered
    BY <1>2, <2>1 DEF Serve, Storing
  <2>3. CASE devices' = devices /\ answer'.status # 200
    BY <2>1, <2>2, <2>3 DEF Storing, StoredIsLinked
  <2>4. CASE \E form \in {"number", "string", "garbled"} :
          LET id == 2 + Cardinality(devices)
          IN /\ devices' = devices \cup {[attempt |-> attempt, code |-> message.code, id |-> id,
                                          answered |-> form # "garbled"]}
             /\ answer' = [status |-> 200, id |-> id, form |-> form]
    <3>1. PICK form \in {"number", "string", "garbled"} :
            LET id == 2 + Cardinality(devices)
            IN /\ devices' = devices \cup {[attempt |-> attempt, code |-> message.code, id |-> id,
                                            answered |-> form # "garbled"]}
               /\ answer' = [status |-> 200, id |-> id, form |-> form]
      BY <2>4
    <3> DEFINE new == [attempt |-> attempt, code |-> message.code, id |-> 2 + Cardinality(devices),
                       answered |-> form # "garbled"]
    <3>2. devices' = devices \cup {new} /\ new.id = answer'.id /\ new.attempt = attempt
          /\ new.code = attempt /\ (new.answered => form \in {"number", "string"})
          /\ answer'.form = form /\ answer'.status = 200
      BY <3>1, <2>1
    <3>3. \A d \in devices' : d.answered => d.attempt = attempt /\ form \in {"number", "string"}
      <4> HIDE DEF new
      <4> QED BY <3>2, <2>2
    <3>4. \E d \in devices' : d.attempt = attempt /\ d.code = attempt /\ d.id = answer'.id
      <4> HIDE DEF new
      <4> QED BY <3>2
    <3> HIDE DEF new
    <3> QED BY <2>1, <3>2, <3>3, <3>4 DEF Storing, StoredIsLinked
  <2>5. (devices' = devices /\ answer'.status # 200)
        \/ \E form \in {"number", "string", "garbled"} :
             LET id == 2 + Cardinality(devices)
             IN /\ devices' = devices \cup {[attempt |-> attempt, code |-> message.code, id |-> id,
                                             answered |-> form # "garbled"]}
                /\ answer' = [status |-> 200, id |-> id, form |-> form]
    BY <1>2 DEF Serve, NoAnswer
  <2> QED BY <2>3, <2>4, <2>5
<1>3. CASE Break
  <2>1. ~IsLinked /\ account' = account /\ pc' = "answered" /\ answer'.status = -1
    BY <1>3 DEF Break, Storing, diskVars, NoAnswer
  <2>2. \A d \in devices' : ~d.answered
    BY <1>3, <2>1 DEF Break, Storing
  <2> QED BY <2>1, <2>2 DEF Storing, StoredIsLinked
<1>4. CASE HandleAnswer
  <2>1. ~IsLinked /\ UNCHANGED <<account, devices, attempt>>
    BY <1>4 DEF HandleAnswer, Storing, Goto, FailFalse, diskVars, serverVars
  <2>2. CASE pc' = "store"
    BY <1>4, <2>1, <2>2 DEF HandleAnswer, Storing, StoredIsLinked, Goto, FailFalse
  <2>3. CASE ~Parses(answer) /\ pc' \in {"put", "idle"}
    BY <1>4, <2>1, <2>3 DEF HandleAnswer, Storing, StoredIsLinked
  <2> QED BY <1>4, <2>2, <2>3 DEF HandleAnswer, Goto, FailFalse, Retries
<1>5. CASE Store
  <2>1. /\ account'.state = "linked" /\ account'.attempt = attempt /\ account'.id = answer.id
        /\ account'.registrationIds = Body.registrationIds /\ account'.name = Body.name
        /\ pc' = "prekeys" /\ UNCHANGED <<attempt, devices, sent, answer>>
    BY <1>5 DEF Store, serverVars
  <2>2. \E d \in devices : d.attempt = attempt /\ d.code = attempt /\ d.id = answer.id
    BY <1>5 DEF Store, Storing
  <2>3. \E r \in sent : r.body = Body
    BY <1>5 DEF Store, Redeeming, Behind
  <2>4. StoredIsLinked'
    BY <2>1, <2>2, <2>3 DEF StoredIsLinked
  <2>5. \A d \in devices : d.answered => d.attempt = attempt
    BY DEF Storing
  <2> QED BY <2>1, <2>4, <2>5 DEF Storing
<1>6. CASE SavePreKey
  BY <1>6, SavePreKeyChanges DEF Storing, StoredIsLinked, serverVars
<1>7. CASE Put
  BY <1>7 DEF Put, Storing, StoredIsLinked, diskVars
<1>8. CASE ReadAddress \/ KeygenDone \/ ScanFails \/ ScanFrame \/ DrawRefused \/ DrawDone
  <2>1. ~IsLinked /\ pc \notin {"answered", "store", "prekeys"}
    BY <1>8 DEF ReadAddress, KeygenDone, ScanFails, ScanFrame, DrawRefused, DrawDone, Storing
  <2>2. \A d \in devices : ~d.answered
    BY <2>1 DEF Storing
  <2>3. UNCHANGED devices /\ pc' \notin {"answered", "store", "prekeys"}
    BY <1>8 DEF ReadAddress, KeygenDone, ScanFails, ScanFrame, DrawRefused, DrawDone, Goto, FailErr,
      FailFalse, serverVars
  <2>4. account' \in {account, NoAccount}
    BY <1>8 DEF ReadAddress, KeygenDone, ScanFails, ScanFrame, DrawRefused, DrawDone, Goto, FailErr,
      FailFalse, diskVars
  <2> QED BY <2>1, <2>2, <2>3, <2>4 DEF Storing, StoredIsLinked, NoAccount
<1>9. CASE UNCHANGED <<setupVars, diskVars, serverVars>>
  BY <1>9 DEF setupVars, diskVars, serverVars, Storing, StoredIsLinked
<1> QED BY <1>1, <1>2, <1>3, <1>4, <1>5, <1>6, <1>7, <1>8, <1>9, NextCases DEF Dialogue

\* Records are saved from the first to the fourth, behind everything else.
Saving ==
  /\ saved \in 0..4 /\ (pc = "prekeys" => saved < 4) /\ (pc \notin {"prekeys", "idle"} => saved = 0)
  /\ records = [d \in {"signed", "kyber"} |-> records[d]]

LEMMA SavingInit == Init => Saving
<1> QED BY DEF Init, Saving

LEMMA DictionaryFact == \A i : Dictionary(i) \in {"signed", "kyber"}
<1> QED BY DEF Dictionary

\* What a save does to the disk: the record of the next key is written, or
\* what is under its id is deleted, or not even that.
LEMMA SavePreKeyCases ==
  ASSUME SavePreKey
  PROVE  LET i == saved + 1
             d == Dictionary(i)
             id == Body.keys[i].id
         IN \/ /\ records' = [records EXCEPT ![d] = With(records[d], id, <<attempt, i>>)]
               /\ saved' = i /\ (i # 4 => pc' = pc) /\ (i = 4 => pc' = "idle")
            \/ /\ records' \in {records, [records EXCEPT ![d] = Without(records[d], id)]}
               /\ saved' = saved /\ pc' = "idle"
<1> QED BY DEF SavePreKey, LinkReturns

LEMMA SavingNext ==
  ASSUME Drawn, Saving, [Next]_vars
  PROVE  Saving'
<1>1. CASE SavePreKey
  <2> DEFINE d == Dictionary(saved + 1)
             id == Body.keys[saved + 1].id
  <2>1. saved \in 0..3 /\ d \in {"signed", "kyber"}
    BY <1>1, SavePreKeyChanges, DictionaryFact DEF Saving
  <2>2. records' = records \/ \E dict : records' = [records EXCEPT ![d] = dict]
    BY <1>1, SavePreKeyCases
  <2> HIDE DEF d
  <2>3. records' = [e \in {"signed", "kyber"} |-> records'[e]]
    BY <2>1, <2>2 DEF Saving
  <2>4. saved' \in 0..4 /\ pc' \in {"prekeys", "idle"} /\ (pc' = "prekeys" => saved' < 4)
    BY <1>1, <2>1, SavePreKeyCases, SavePreKeyChanges
  <2> QED BY <2>3, <2>4 DEF Saving
<1>2. CASE Start
  BY <1>2 DEF Start, Saving
<1>3. CASE pc' = "idle" /\ UNCHANGED <<saved, records>>
  BY <1>3 DEF Saving
<1>4. CASE pc \notin {"prekeys", "idle"} /\ UNCHANGED <<saved, records>>
  BY <1>4 DEF Saving
<1>5. CASE Dialogue /\ ~SavePreKey /\ ~Start
  BY <1>3, <1>4, <1>5 DEF Dialogue, ReadAddress, KeygenDone, ScanFails, ScanFrame, DrawRefused,
    DrawDone, Put, Serve, Break, HandleAnswer, Store, Goto, FailErr, FailFalse, diskVars
<1>6. CASE UNCHANGED <<setupVars, diskVars, serverVars>>
  BY <1>6 DEF setupVars, diskVars, Saving
<1> QED BY <1>1, <1>2, <1>5, <1>6, NextCases

\* Saving or deleting one record leaves the others of its dictionary alone.
LEMMA OthersKept ==
  ASSUME NEW dict, NEW id, NEW record, NEW x
  PROVE  /\ id \in DOMAIN With(dict, id, record) /\ With(dict, id, record)[id] = record
         /\ x # id /\ x \in DOMAIN dict =>
              /\ x \in DOMAIN With(dict, id, record) /\ With(dict, id, record)[x] = dict[x]
              /\ x \in DOMAIN Without(dict, id) /\ Without(dict, id)[x] = dict[x]
<1> QED BY DEF With, Without

LEMMA UploadedInit == Init => UploadedKeysOnDisk
<1> QED BY DEF Init, UploadedKeysOnDisk, NoAccount

LEMMA UploadedNext ==
  ASSUME Redeeming, Storing, Saving, UploadedKeysOnDisk, [Next]_vars
  PROVE  UploadedKeysOnDisk'
<1>1. CASE SavePreKey
  <2> DEFINE k == saved + 1
             e == Dictionary(k)
             new == Body.keys[k].id
  <2>1. \A r \in sent : r.body = Body
    BY <1>1 DEF SavePreKey, Redeeming, Behind
  <2>2. /\ account.attempt = attempt /\ account.state = "linked" /\ UNCHANGED <<account, sent>>
        /\ saved \in 0..3
    BY <1>1, SavePreKeyChanges DEF Storing, IsLinked, Saving, serverVars
  <2>3. \A i \in 1..4 : Dictionary(i) # e => records'[Dictionary(i)] = records[Dictionary(i)]
    <3>1. records' = records \/ \E dict : records' = [records EXCEPT ![e] = dict]
      BY <1>1, SavePreKeyCases
    <3> HIDE DEF e
    <3> QED BY <3>1, DictionaryFact DEF Saving
  <2>4. \/ records'[e] = With(records[e], new, <<attempt, k>>) /\ saved' = k
        \/ records'[e] \in {records[e], Without(records[e], new)} /\ saved' = saved
    <3>1. e \in DOMAIN records
      BY DictionaryFact DEF Saving
    <3> QED BY <1>1, <3>1, SavePreKeyCases
  <2>5. ASSUME NEW r \in sent', NEW i \in 1..saved',
               \A j \in (i + 1)..4 : ~SameId(r.body, i, j)
        PROVE  LET dict == records'[Dictionary(i)]
                   id == r.body.keys[i].id
               IN id \in DOMAIN dict /\ dict[id] = <<account'.attempt, i>>
    <3>1. r \in sent /\ r.body = Body /\ account'.attempt = attempt
      BY <2>1, <2>2
    <3>2. CASE i = k
      <4>1. records'[e] = With(records[e], new, <<attempt, k>>)
        BY <2>2, <2>4, <3>2
      <4> HIDE DEF e, new
      <4>2. new \in DOMAIN records'[e] /\ records'[e][new] = <<attempt, k>>
        BY <4>1, OthersKept
      <4> QED BY <3>1, <3>2, <4>2 DEF e, new
    <3>3. CASE i \in 1..saved
      <4> DEFINE id == Body.keys[i].id
                 d == Dictionary(i)
      <4>1. id \in DOMAIN records[d] /\ records[d][id] = <<attempt, i>>
        BY <2>2, <3>1, <3>3, <2>5 DEF UploadedKeysOnDisk
      <4>2. d = e => id # new
        BY <2>2, <2>5, <3>1, <3>3 DEF SameId
      <4>3. i \in 1..4
        BY <2>2, <3>3
      <4> HIDE DEF id, new, e, d
      <4>4. d = e => id \in DOMAIN records'[d] /\ records'[d][id] = <<attempt, i>>
        <5> SUFFICES ASSUME d = e PROVE id \in DOMAIN records'[e] /\ records'[e][id] = <<attempt, i>>
          OBVIOUS
        <5>1. id \in DOMAIN records[e] /\ records[e][id] = <<attempt, i>> /\ id # new
          BY <4>1, <4>2
        <5> DEFINE dict == records[e]
        <5>2. /\ id \in DOMAIN With(dict, new, <<attempt, k>>)
              /\ With(dict, new, <<attempt, k>>)[id] = <<attempt, i>>
              /\ id \in DOMAIN Without(dict, new) /\ Without(dict, new)[id] = <<attempt, i>>
          <6>1. id \in DOMAIN dict /\ dict[id] = <<attempt, i>> /\ id # new
            BY <5>1
          <6> HIDE DEF k, dict
          <6> QED BY <6>1 DEF With, Without
        <5> QED BY <5>1, <5>2, <2>4
      <4>5. d # e => records'[d] = records[d]
        BY <4>3, <2>3 DEF d
      <4>6. id \in DOMAIN records'[d] /\ records'[d][id] = <<attempt, i>>
        BY <4>1, <4>4, <4>5
      <4> QED BY <3>1, <4>6 DEF id, d
    <3> QED BY <2>2, <2>4, <3>2, <3>3
  <2> QED BY <2>5 DEF UploadedKeysOnDisk, SameId, Dictionary
<1>2. CASE ~(account.state = "linked")'
  BY <1>2 DEF UploadedKeysOnDisk
<1>3. CASE saved' = 0
  BY <1>3 DEF UploadedKeysOnDisk
<1>4. CASE UNCHANGED <<setupVars, diskVars, serverVars>>
  BY <1>4 DEF setupVars, diskVars, serverVars, UploadedKeysOnDisk, SameId, Dictionary
<1>5. CASE Dialogue /\ ~SavePreKey
  <2>1. account.state # "linked" \/ pc \in {"prekeys", "idle"}
    BY DEF Storing, IsLinked
  <2>2. CASE Start \/ Store \/ Put \/ Serve \/ Break
    <3>1. saved' = 0
      BY <2>2 DEF Start, Store, Put, Serve, Break, Saving, diskVars
    <3> QED BY <3>1, <1>3
  <2>3. CASE HandleAnswer \/ ReadAddress \/ KeygenDone \/ ScanFails \/ ScanFrame \/ DrawRefused \/ DrawDone
    <3>1. account.state # "linked" /\ account' \in {account, NoAccount}
      BY <2>1, <2>3 DEF HandleAnswer, ReadAddress, KeygenDone, ScanFails, ScanFrame, DrawRefused,
        DrawDone, Goto, FailErr, FailFalse, diskVars
    <3> QED BY <3>1, <1>2 DEF NoAccount
  <2> QED BY <1>5, <2>2, <2>3 DEF Dialogue
<1> QED BY <1>1, <1>4, <1>5, NextCases

-----------------------------------------------------------------------------
(* The theorems.                                                            *)

LEMMA PanicNext ==
  ASSUME Typed, NeverPanics, [Next]_vars
  PROVE  NeverPanics'
<1>1. CASE ScanFrame
  <2>1. PICK f \in Frames(attempt) : pc' = "panic" => Outcome(attempt, f) \notin {"accepted", "refused"}
    BY <1>1 DEF ScanFrame, FailErr, Goto
  <2>2. Outcome(attempt, f) \in {"accepted", "refused", "panicked"}
    BY DEF Outcome
  <2> QED BY <2>1, <2>2, NoFramePanics DEF NeverPanics, Typed
<1>2. CASE Dialogue /\ ~ScanFrame
  BY <1>2, SavePreKeyChanges DEF Dialogue, Start, ReadAddress, KeygenDone, ScanFails, DrawRefused,
    DrawDone, Put, Serve, Break, HandleAnswer, Store, Goto, FailErr, FailFalse, NeverPanics
<1>3. CASE UNCHANGED <<setupVars, diskVars, serverVars>>
  BY <1>3 DEF setupVars, NeverPanics
<1> QED BY <1>1, <1>2, <1>3, NextCases

LinkingInv ==
  IInv /\ Typed /\ Asking /\ Drawn /\ Redeeming /\ Storing /\ Saving /\ UploadedKeysOnDisk
  /\ NeverPanics

THEOREM LinkingCorrect == Spec => []LinkingInv
<1>1. Init => LinkingInv
  BY InitIInv, TypedInit, AskingInit, DrawnInit, RedeemingInit, StoringInit, SavingInit,
    UploadedInit
  DEF Init, LinkingInv, NeverPanics
<1>2. LinkingInv /\ [Next]_vars => LinkingInv'
  BY TrngPart, TypedNext, AskingNext, DrawnNext, RedeemingNext, StoringNext, SavingNext,
    UploadedNext, PanicNext
  DEF LinkingInv
<1> QED BY <1>1, <1>2, PTL DEF Spec

\* The account that is stored is the one the server linked with the code of
\* this attempt's QR code: nothing of a frame for another key gets through
\* (decrypt, Account::link).
THEOREM StoredWasLinked == Spec => []StoredIsLinked
<1>1. LinkingInv => StoredIsLinked
  BY DEF LinkingInv, Storing
<1> QED BY <1>1, LinkingCorrect, PTL

\* A code that the server may have redeemed is not presented again
\* (put_devices_link).
THEOREM CodesAreFresh == Spec => []NoCodeSentTwice
<1>1. LinkingInv => NoCodeSentTwice
  BY DEF LinkingInv, Redeeming, NoCodeSentTwice
<1> QED BY <1>1, LinkingCorrect, PTL

\* A device that the server has linked and whose answer can be read is on
\* disk when the dialogue ends (LinkDeviceResponse).
THEOREM AnswersAreStored == Spec => []AnsweredIsStored
<1>1. LinkingInv => AnsweredIsStored
  BY DEF LinkingInv, Storing, IsLinked, AnsweredIsStored
<1> QED BY <1>1, LinkingCorrect, PTL

\* Whatever words the rng gives and whatever the name, what is sent is
\* valid and the phone reads the name (generate_prekeys,
\* build_account_attributes, encrypt_device_name).
THEOREM RequestsAreValid == Spec => []SentIsValid
<1>1. LinkingInv => SentIsValid
  BY DEF LinkingInv, Redeeming, SentIsValid
<1> QED BY <1>1, LinkingCorrect, PTL

\* A record that was saved stays on disk under the id that was uploaded, also
\* when a later save fails, unless a later key of the request drew the same id:
\* the last of those has its record there (save_to_pddb).
THEOREM KeysAreOnDisk == Spec => []UploadedKeysOnDisk
<1>1. LinkingInv => UploadedKeysOnDisk
  BY DEF LinkingInv
<1> QED BY <1>1, LinkingCorrect, PTL

\* No body, however short, makes a slice panic (decrypt).
THEOREM FramesNeverPanic == Spec => []NeverPanics
<1>1. LinkingInv => NeverPanics
  BY DEF LinkingInv
<1> QED BY <1>1, LinkingCorrect, PTL

\* The random bytes of a link are the server's, as those of any request
\* are (TrngFillProofs).
THEOREM LinkingDrawsFresh == Spec => [](EveryByteFresh /\ ConnectedBeforeUse /\ OnlyLargePanics)
<1>1. LinkingInv => EveryByteFresh /\ ConnectedBeforeUse /\ OnlyLargePanics
  BY IInvImplies DEF LinkingInv
<1> QED BY <1>1, LinkingCorrect, PTL
=============================================================================
