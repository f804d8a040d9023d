---------------------------- MODULE Provisioning ----------------------------
(***************************************************************************)
(* What the provisioning messages go through: decoding and decrypting the  *)
(* frames of the provisioning WebSocket and encrypting the device name     *)
(* (libsignal.rs), checking the ProvisionMessage and building the request  *)
(* of PUT /v1/devices/link (account.rs, account_attrs.rs, prekeys.rs).     *)
(* Keys and ciphertexts are symbols: what was made with one key comes out  *)
(* with that key only.  A key pair is named by one value, both halves.     *)
(*                                                                         *)
(* A frame is a record of its layers: ws, the WebSocketMessage; env, the   *)
(* ProvisionEnvelope; pub, its ephemeral key; body, the encrypted part,    *)
(* with its length, version, the key it was encrypted to, whether it is    *)
(* whole, and the ProvisionMessage inside.  None is a field that is absent.*)
(***************************************************************************)
EXTENDS Integers, Sequences

CONSTANTS Empty, None

-----------------------------------------------------------------------------
(* Frames.                                                                  *)

VersionBytes == 1
IvBytes == 16
BlockBytes == 16
MacBytes == 32

\* What the phone puts into the envelope for the QR code of key k: the
\* private keys of the account and a code that links one device.
PhoneMessage(k) ==
  [number |-> "number", aciPub |-> "aci", aciPriv |-> "aci", pniPub |-> "pni", pniPriv |-> "pni",
   aci |-> "aci uuid", pni |-> "pni uuid", code |-> k, profile |-> 32, aep |-> "aep"]

PhoneBody(k, m) ==
  [len |-> VersionBytes + IvBytes + 2 * BlockBytes + MacBytes, version |-> 1,
   key |-> k, whole |-> TRUE, msg |-> m]

PhoneFrame(k, m) ==
  [ws |-> "ok", env |-> "ok", pub |-> "ok", body |-> PhoneBody(k, m)]

\* WebSocketMessage { request { body } }, common to both kinds of frame.
Unwraps(f) == f.ws = "ok"

\* ProvisioningUuid::decode; the address is routed by, not looked at.
AddressDecodes(f) == Unwraps(f) /\ f.address # None

EnvelopeDecodes(f) == f.env = "ok" /\ f.pub # None /\ f.body # None

\* Mutant: the ciphertext and the IV are forgotten in the minimum.
LongEnoughForMac(b) == b.len >= VersionBytes + MacBytes

LongEnough(b) == b.len >= VersionBytes + IvBytes + BlockBytes + MacBytes

\* The slices of the body: IV, ciphertext and MAC must not overlap.
Sliceable(b) == b.len >= VersionBytes + IvBytes + MacBytes

\* Mutant: the MAC is taken as verified.
AuthenticUnverified(k, b) == TRUE

\* ECDH with the temporary key, HKDF, and the HMAC over all but itself.
Authentic(k, b) == b.key = k /\ b.whole

\* AES-CBC with PKCS7 needs whole blocks.
Decrypts(b) == (b.len - VersionBytes - IvBytes - MacBytes) % BlockBytes = 0

MessageDecodes(m) == m # None /\ m.aciPub # None /\ m.aciPriv # None

\* ProvisionMessage::decode and PrimaryProvisioningCipher::decrypt with the
\* temporary key k: "accepted", "refused" by one of the checks, or
\* "panicked" in one of the slices behind the verified MAC.
Outcome(k, f) ==
  IF ~Unwraps(f) \/ ~EnvelopeDecodes(f) THEN "refused"
  ELSE IF ~LongEnough(f.body) \/ f.body.version # 1 \/ f.pub # "ok" THEN "refused"
  ELSE IF ~Authentic(k, f.body) THEN "refused"
  ELSE IF ~Sliceable(f.body) THEN "panicked"
  ELSE IF ~Decrypts(f.body) \/ ~MessageDecodes(f.body.msg) THEN "refused"
  ELSE "accepted"

OrDefault(v) == IF v = None THEN Empty ELSE v

\* The ProvisionMessage that comes out: some fields default to an empty
\* string, the optional ones stay absent.
Accepted(f) ==
  LET m == f.body.msg
  IN [m EXCEPT !.number = OrDefault(@), !.aci = OrDefault(@), !.pni = OrDefault(@),
               !.pniPub = OrDefault(@), !.pniPriv = OrDefault(@)]

-----------------------------------------------------------------------------
(* The device name.                                                         *)

Hmac(key, data) == <<"hmac", key, data>>
Agreement(a, b) == {a, b}

\* aes256_ctr_encrypt, of a text of 16-byte blocks (the last one may be
\* shorter): each block has a counter of its own.
Ctr(key, text) == [i \in DOMAIN text |-> [block |-> text[i], key |-> key, counter |-> i - 1]]

\* Mutant: the cipher key is derived under the other label.
EncryptDeviceNameOneLabel(name, ephemeral, aciPriv) ==
  LET secret == Agreement(ephemeral, aciPriv)
      siv == Hmac(Hmac(secret, "auth"), name)
  IN [ephemeral |-> ephemeral, siv |-> siv,
      ciphertext |-> Ctr(Hmac(Hmac(secret, "auth"), siv), name)]

EncryptDeviceName(name, ephemeral, aciPriv) ==
  LET secret == Agreement(ephemeral, aciPriv)
      siv == Hmac(Hmac(secret, "auth"), name)
  IN [ephemeral |-> ephemeral, siv |-> siv,
      ciphertext |-> Ctr(Hmac(Hmac(secret, "cipher"), siv), name)]

\* DeviceNameCipher of the phone: the name, or None where the synthetic IV
\* is not the one of the text.
DecryptedName(n, aciPriv) ==
  LET secret == Agreement(n.ephemeral, aciPriv)
      text == [i \in DOMAIN n.ciphertext |-> n.ciphertext[i].block]
  IN IF /\ n.ciphertext = Ctr(Hmac(Hmac(secret, "cipher"), n.siv), text)
        /\ n.siv = Hmac(Hmac(secret, "auth"), text)
     THEN text ELSE None

-----------------------------------------------------------------------------
(* The request.                                                             *)

\* The checks of Account::link, in their order: its first lines, the
\* private key that encrypt_device_name agrees with, the length that
\* derive_unidentified_access_key asks for, and decode_private_key of both.
HasCodeAndProfile(m) == m.code # None /\ m.profile # None
NameKeyDecodes(m) == m.aciPriv # Empty
AccessKeyDerives(m) == m.profile = 32
KeysDecode(m) == m.aciPriv # Empty /\ m.pniPriv # Empty

PreKeyKinds == <<"aciSigned", "pniSigned", "aciKyber", "pniKyber">>

MediumMax == 256 * 256 * 256 - 1
RegistrationMax == 16380

\* random_prekey_id and generate_registration_id, of a word of the rng.
PreKeyId(word) == (word % MediumMax) + 1
RegistrationId(word) == (word % RegistrationMax) + 1

\* The identity that signs each prekey of generate_prekeys.
Signer(m, kind) == IF kind \in {"aciSigned", "aciKyber"} THEN m.aciPriv ELSE m.pniPriv

\* build_account_attributes and LinkDeviceRequestBody::from_parts, with the
\* words drawn for the registration ids and for the prekeys.
RequestBody(m, name, registrations, prekeys) ==
  [code |-> m.code,
   name |-> EncryptDeviceName(name, "ephemeral", m.aciPriv),
   access |-> m.profile,
   registrationIds |-> [i \in 1..2 |-> RegistrationId(registrations[i])],
   keys |-> [i \in 1..4 |-> [id |-> PreKeyId(prekeys[i]), signer |-> Signer(m, PreKeyKinds[i])]]]

\* What the server's validators and the phone ask of a request: the ranges
\* of the ids, signatures of the two identities, a name that can be read.
ValidRequest(b, name) ==
  /\ b.code # None /\ b.access = 32
  /\ \A i \in 1..2 : 1 <= b.registrationIds[i] /\ b.registrationIds[i] <= 16380
  /\ \A i \in 1..4 : 1 <= b.keys[i].id /\ b.keys[i].id < 256 * 256 * 256
  /\ \A i \in 1..4 : b.keys[i].signer = IF i \in {1, 3} THEN "aci" ELSE "pni"
  /\ DecryptedName(b.name, "aci") = name
=============================================================================
