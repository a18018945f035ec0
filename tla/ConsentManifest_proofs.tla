----------------------- MODULE ConsentManifest_proofs -----------------------
(***************************************************************************)
(* Safety of verification, for any number of sessions and verifying calls, *)
(* any keys, code, limits and nonces.                                      *)
(*                                                                         *)
(* Each call's facts depend on that call alone and on two sets that only   *)
(* grow, the signatures made and the nonces seen; the one fact about two   *)
(* calls, that they do not both find a nonce unseen, is established where  *)
(* the second of them looks.                                               *)
(***************************************************************************)
EXTENDS ConsentManifest, TLAPS

Verifying == {"signature", "code", "ok"}
Authenticated == {"code", "ok"}

\* What a session verifies is what it loaded and signed itself.
OwnSigned(c) ==
    /\ manifest[c].body = manifest[c].sig.body
    /\ manifest[c].body.key_id = manifest[c].sig.by
    /\ loaded[c] = manifest[c].body.code

CallInv(c) ==
    /\ phase[c] \in Verifying \cup {"signed"} =>
          manifest[c] # NoManifest /\ manifest[c].sig \in issued
    /\ c \in Sessions /\ phase[c] \in {"kernels", "loaded"} => loaded[c] # NoCode
    /\ c \in Sessions /\ phase[c] \in Verifying \cup {"signed"} =>
          OwnSigned(c) /\ loaded[c] # NoCode
    /\ phase[c] \in Authenticated => loaded[c] # NoCode
    /\ phase[c] \in Authenticated /\ "signature" \notin failed[c] =>
          SignatureVerifies(manifest[c], KeyOf(c))
    /\ phase[c] = "ok" =>
          failed[c] = {} /\ CodeMatches(manifest[c].body, loaded[c])
    /\ c \in Sessions =>
          failed[c] \subseteq {"structure", "policy", "validity_window"}
    /\ c \in Verifiers /\ phase[c] \in Authenticated =>
          manifest[c].body.nonce \in seenNonces

FoundUnseen(c) ==
    phase[c] \in Authenticated /\ "nonce_freshness" \notin failed[c]

NonceFoundOnce ==
    \A c, d \in Verifiers :
        FoundUnseen(c) /\ FoundUnseen(d) /\ c # d
            => manifest[c].body.nonce # manifest[d].body.nonce

IInv ==
    /\ TypeOK
    /\ \A c \in Calls : CallInv(c)
    /\ NonceFoundOnce

-----------------------------------------------------------------------------

\* Two pieces of code whose worker, number of kernels and kernels agree are
\* the same code.
LEMMA MatchingCodeIsEqual ==
    ASSUME NEW body \in Bodies, NEW code \in Code, CodeMatches(body, code)
    PROVE  code = body.code
<1>1. body.code \in Code
  BY DEF Bodies
<1>2. code.kernels = body.code.kernels
  BY <1>1 DEF CodeMatches, Code
<1>. QED
  BY <1>1, <1>2 DEF CodeMatches, Code

\* The body a session builds has the type of a body.
LEMMA BodyType ==
    ASSUME TypeOK, ManifestAssumption, NEW key \in Keys, NEW code \in Code,
           NEW limits \in Limits, NEW nonce \in Nonces
    PROVE  Body(key, code, limits, nonce) \in Bodies
<1>1. clock \in Int /\ clock + Ttl \in Int
  BY DEF TypeOK, ManifestAssumption
<1>. QED
  BY <1>1 DEF Body, Bodies

\* And so has whatever is presented.
LEMMA PresentableType ==
    ASSUME ManifestAssumption, NEW body \in Bodies, NEW other \in Presentable(body)
    PROVE  other \in Bodies
BY DEF Presentable, Bodies, ManifestAssumption

-----------------------------------------------------------------------------

\* Initially no call has begun.
LEMMA InitialInvariant == Init => IInv
<1>. SUFFICES ASSUME Init PROVE IInv
  OBVIOUS
<1>1. TypeOK
  BY ManifestAssumption DEF Init, TypeOK, ManifestAssumption
<1>2. ASSUME NEW c \in Calls PROVE CallInv(c) /\ ~FoundUnseen(c)
  BY DEF Init, CallInv, FoundUnseen, Verifying, Authenticated, Calls
<1>. QED
  BY <1>1, <1>2 DEF IInv, NonceFoundOnce, Calls

\* Every step keeps the types.
LEMMA TypeStep == IInv /\ [Next]_vars => TypeOK'
<1>. SUFFICES ASSUME IInv, [Next]_vars PROVE TypeOK'
  OBVIOUS
<1>. USE ManifestAssumption DEF IInv
<1>1. ASSUME NEW c \in Sessions, LoadWorker(c) PROVE TypeOK'
  <2>1. [worker |-> served.worker, kernels |-> <<>>] \in Code
    BY DEF TypeOK, ManifestAssumption, Code
  <2>. QED
    BY <1>1, <2>1 DEF LoadWorker, TypeOK, world, Calls
<1>2. ASSUME NEW c \in Sessions, LoadKernels(c) PROVE TypeOK'
  <2>1. loaded[c] \in Code
    BY <1>2 DEF LoadKernels, TypeOK, CallInv, Calls
  <2>2. [loaded[c] EXCEPT !.kernels = served.kernels] \in Code
    BY <2>1 DEF TypeOK, ManifestAssumption, Code
  <2>. QED
    BY <1>2, <2>2 DEF LoadKernels, TypeOK, world, Calls
<1>3. ASSUME NEW c \in Sessions, Issue(c) PROVE TypeOK'
  <2>1. PICK key \in Keys, limits \in Limits, nonce \in Nonces :
          LET sig == [body |-> Body(key, loaded[c], limits, nonce), by |-> key]
          IN  /\ issued' = issued \cup {sig}
              /\ manifest' = [manifest EXCEPT ![c] = [body |-> sig.body, sig |-> sig]]
    BY <1>3 DEF Issue, Declared
  <2>. DEFINE sig == [body |-> Body(key, loaded[c], limits, nonce), by |-> key]
  <2>2. loaded[c] \in Code
    BY <1>3 DEF Issue, TypeOK, CallInv, Calls
  <2>3. sig.body \in Bodies /\ sig \in Signatures
    BY <2>2, BodyType DEF Signatures
  <2>4. [body |-> sig.body, sig |-> sig] \in [body : Bodies, sig : Signatures]
    BY <2>3
  <2>. HIDE DEF sig
  <2>. QED
    BY <1>3, <2>1, <2>3, <2>4 DEF Issue, TypeOK, world, Calls, sig
<1>4. ASSUME NEW c \in Sessions, VerifyOwn(c) PROVE TypeOK'
  <2>1. clock \in Int
    BY DEF TypeOK, ManifestAssumption
  <2>. QED
    BY <1>4, <2>1 DEF VerifyOwn, Begin, TypeOK, world, Calls, CheckNames
<1>5. ASSUME NEW c \in Sessions, Launch(c) PROVE TypeOK'
  BY <1>5 DEF Launch, TypeOK, world, calls
<1>6. ASSUME NEW c \in Verifiers, VerifyPresented(c) PROVE TypeOK'
  <2>1. PICK sig \in issued, code \in Bundles \cup {NoCode} :
          \E body \in Presentable(sig.body) :
              /\ manifest' = [manifest EXCEPT ![c] = [body |-> body, sig |-> sig]]
              /\ loaded' = [loaded EXCEPT ![c] = code]
              /\ Begin(c, body, clock + drift)
    BY <1>6 DEF VerifyPresented
  <2>2. PICK body \in Presentable(sig.body) :
              /\ manifest' = [manifest EXCEPT ![c] = [body |-> body, sig |-> sig]]
              /\ loaded' = [loaded EXCEPT ![c] = code]
              /\ Begin(c, body, clock + drift)
    BY <2>1
  <2>3. sig \in Signatures /\ sig.body \in Bodies
    BY DEF TypeOK, Signatures
  <2>4. body \in Bodies
    BY <2>3, PresentableType
  <2>5. code \in Code \cup {NoCode}
    BY DEF ManifestAssumption
  <2>6. clock + drift \in Int
    BY DEF TypeOK, ManifestAssumption
  <2>7. manifest' \in [Calls -> [body : Bodies, sig : Signatures] \cup {NoManifest}]
    BY <2>2, <2>3, <2>4 DEF TypeOK
  <2>8. /\ now' \in [Calls -> Int] /\ failed' \in [Calls -> SUBSET CheckNames]
        /\ phase' \in [Calls -> {"idle", "kernels", "loaded", "signed", "signature",
                                 "code", "ok", "refused"}]
        /\ loaded' \in [Calls -> Code \cup {NoCode}]
    BY <2>2, <2>5, <2>6 DEF Begin, TypeOK, CheckNames
  <2>. QED
    BY <1>6, <2>7, <2>8 DEF VerifyPresented, TypeOK, world
<1>7. ASSUME NEW c \in Calls, Authenticate(c) PROVE TypeOK'
  <2>1. manifest[c].body.nonce \in Nonces
    BY <1>7 DEF Authenticate, CallInv, Verifying, TypeOK, Bodies
  <2>2. seenNonces' \subseteq Nonces
    BY <1>7, <2>1 DEF Authenticate, Remembered, TypeOK
  <2>3. failed' \in [Calls -> SUBSET CheckNames]
    BY <1>7 DEF Authenticate, Failing, CheckNames, TypeOK
  <2>. QED
    BY <1>7, <2>2, <2>3 DEF Authenticate, TypeOK, world
<1>8. ASSUME NEW c \in Calls, Conclude(c) PROVE TypeOK'
  <2>1. failed' \in [Calls -> SUBSET CheckNames]
    BY <1>8 DEF Conclude, Failing, CheckNames, TypeOK
  <2>. QED
    BY <1>8, <2>1 DEF Conclude, Verdict, TypeOK, world
<1>9. CASE Tick \/ Deploy \/ UNCHANGED vars
  BY <1>9 DEF Tick, Deploy, vars, world, calls, TypeOK, ManifestAssumption
<1>. QED
  BY <1>1, <1>2, <1>3, <1>4, <1>5, <1>6, <1>7, <1>8, <1>9 DEF Next

-----------------------------------------------------------------------------

\* A step of one call leaves every other call's facts alone.
LEMMA OtherCalls ==
    ASSUME TypeOK, NEW c \in Calls, NEW d \in Calls, c # d, CallInv(d),
           \/ c \in Sessions /\ (LoadWorker(c) \/ LoadKernels(c) \/ Issue(c)
                                 \/ VerifyOwn(c) \/ Launch(c))
           \/ c \in Verifiers /\ VerifyPresented(c)
           \/ Authenticate(c) \/ Conclude(c)
    PROVE  /\ CallInv(d)'
           /\ FoundUnseen(d)' <=> FoundUnseen(d)
           /\ manifest'[d] = manifest[d]
<1>1. issued \subseteq issued' /\ seenNonces \subseteq seenNonces'
  BY DEF LoadWorker, LoadKernels, Issue, VerifyOwn, Launch, VerifyPresented,
         Authenticate, Conclude
<1>2. /\ phase'[d] = phase[d] /\ manifest'[d] = manifest[d]
      /\ loaded'[d] = loaded[d] /\ failed'[d] = failed[d]
  BY DEF LoadWorker, LoadKernels, Issue, VerifyOwn, Launch, VerifyPresented,
         Authenticate, Conclude, Begin, calls, TypeOK
<1>. QED
  BY <1>1, <1>2 DEF CallInv, FoundUnseen, OwnSigned, KeyOf

\* Every step of a call keeps that call's facts.
LEMMA OwnStep ==
    ASSUME IInv, TypeOK', NEW c \in Calls,
           \/ c \in Sessions /\ (LoadWorker(c) \/ LoadKernels(c) \/ Issue(c)
                                 \/ VerifyOwn(c) \/ Launch(c))
           \/ c \in Verifiers /\ VerifyPresented(c)
           \/ Authenticate(c) \/ Conclude(c)
    PROVE  CallInv(c)'
<1>. USE ManifestAssumption DEF Verifying, Authenticated
<1>0. CallInv(c) /\ TypeOK
  BY DEF IInv
<1>1. CASE c \in Sessions /\ LoadWorker(c)
  <2>1. [worker |-> served.worker, kernels |-> <<>>] \in Code
    BY <1>0 DEF TypeOK, ManifestAssumption, Code
  <2>2. loaded'[c] # NoCode
    BY <1>0, <1>1, <2>1 DEF LoadWorker, TypeOK, ManifestAssumption
  <2>. QED
    BY <1>0, <1>1, <2>2 DEF LoadWorker, TypeOK, CallInv, ManifestAssumption
<1>2. CASE c \in Sessions /\ LoadKernels(c)
  <2>1. loaded[c] \in Code
    BY <1>0, <1>2 DEF LoadKernels, TypeOK, CallInv
  <2>2. [loaded[c] EXCEPT !.kernels = served.kernels] \in Code
    BY <1>0, <2>1 DEF TypeOK, ManifestAssumption, Code
  <2>3. loaded'[c] # NoCode
    BY <1>0, <1>2, <2>2 DEF LoadKernels, TypeOK, ManifestAssumption
  <2>. QED
    BY <1>0, <1>2, <2>3 DEF LoadKernels, TypeOK, CallInv, ManifestAssumption
<1>3. CASE c \in Sessions /\ Issue(c)
  <2>1. PICK key \in Keys, limits \in Limits, nonce \in Nonces :
          LET sig == [body |-> Body(key, loaded[c], limits, nonce), by |-> key]
          IN  /\ issued' = issued \cup {sig}
              /\ manifest' = [manifest EXCEPT ![c] = [body |-> sig.body, sig |-> sig]]
    BY <1>3 DEF Issue, Declared
  <2>. DEFINE body == Body(key, loaded[c], limits, nonce)
              sig == [body |-> body, by |-> key]
  <2>2. manifest'[c] = [body |-> body, sig |-> sig] /\ sig \in issued'
    BY <1>0, <2>1 DEF TypeOK
  <2>3. body.key_id = key /\ body.code = loaded[c]
    BY DEF Body
  <2>4. loaded'[c] = loaded[c] /\ failed'[c] = failed[c] /\ phase'[c] = "signed"
    BY <1>0, <1>3 DEF Issue, TypeOK
  <2>5. loaded[c] # NoCode
    BY <1>0, <1>3 DEF Issue, CallInv
  <2>6. manifest'[c] # NoManifest
    <3>1. body \in Bodies
      BY <1>0, <2>5, BodyType DEF TypeOK
    <3>. QED
      BY <2>2, <3>1 DEF Signatures, ManifestAssumption
  <2>7. manifest'[c].sig \in issued' /\ OwnSigned(c)'
    BY <2>2, <2>3, <2>4 DEF OwnSigned
  <2>8. c \notin Verifiers
    BY <1>3 DEF ManifestAssumption
  <2>. QED
    BY <1>0, <2>4, <2>5, <2>6, <2>7, <2>8 DEF CallInv
<1>4. CASE c \in Sessions /\ VerifyOwn(c)
  BY <1>0, <1>4 DEF VerifyOwn, Begin, TypeOK, CallInv, OwnSigned, KeyOf,
                    ManifestAssumption
<1>5. CASE c \in Sessions /\ Launch(c)
  BY <1>0, <1>5 DEF Launch, calls, CallInv, OwnSigned, KeyOf
<1>6. CASE c \in Verifiers /\ VerifyPresented(c)
  <2>1. PICK sig \in issued :
          \E body : manifest' = [manifest EXCEPT ![c] = [body |-> body, sig |-> sig]]
    BY <1>6 DEF VerifyPresented
  <2>2. manifest'[c].sig \in issued
    BY <1>0, <2>1 DEF TypeOK
  <2>3. phase'[c] \in {"signature", "refused"} /\ issued' = issued
    BY <1>0, <1>6 DEF VerifyPresented, Begin, TypeOK
  <2>4. c \notin Sessions
    BY <1>6 DEF ManifestAssumption
  <2>5. manifest'[c] # NoManifest
    BY <1>0, <1>6, PresentableType DEF VerifyPresented, TypeOK, Signatures,
                                       ManifestAssumption
  <2>. QED
    BY <2>2, <2>3, <2>4, <2>5 DEF CallInv
<1>7. CASE Authenticate(c)
  <2>. DEFINE checks ==
                [signature       |-> SignatureVerifies(manifest[c], KeyOf(c)),
                 key_binding     |-> KeyBound(manifest[c], KeyOf(c)),
                 validity_window |-> Fresh(manifest[c].body, now[c]),
                 nonce_freshness |-> ~Replayed(c),
                 code_binding    |-> loaded[c] # NoCode,
                 policy          |-> loaded[c] = NoCode =>
                                        WithinPolicy(manifest[c].body)]
  <2>1. /\ phase[c] = "signature"
        /\ failed'[c] = Failing(checks)
        /\ phase'[c] = IF loaded[c] = NoCode THEN "refused" ELSE "code"
        /\ seenNonces' = seenNonces \cup Remembered(c)
        /\ UNCHANGED <<issued, manifest, loaded>>
    BY <1>0, <1>7 DEF Authenticate, TypeOK
  <2>2. "signature" \notin failed'[c] => SignatureVerifies(manifest[c], KeyOf(c))
    BY <2>1 DEF Failing
  <2>3. c \in Sessions => failed'[c] \subseteq {"validity_window"}
    <3>1. SUFFICES ASSUME c \in Sessions
                   PROVE  failed'[c] \subseteq {"validity_window"}
      OBVIOUS
    <3>2. OwnSigned(c) /\ loaded[c] # NoCode
      BY <1>0, <2>1, <3>1 DEF CallInv
    <3>3. SignatureVerifies(manifest[c], KeyOf(c)) /\ KeyBound(manifest[c], KeyOf(c))
      BY <3>1, <3>2 DEF OwnSigned, SignatureVerifies, KeyBound, KeyOf
    <3>4. ~Replayed(c)
      BY <3>1 DEF Replayed, ManifestAssumption
    <3>5. Failing(checks) \subseteq {"signature", "key_binding", "validity_window",
                                     "nonce_freshness", "code_binding", "policy"}
      BY DEF Failing
    <3>6. "signature" \notin Failing(checks)
      BY <3>3 DEF Failing
    <3>7. "key_binding" \notin Failing(checks)
      BY <3>3 DEF Failing
    <3>8. "nonce_freshness" \notin Failing(checks)
      BY <3>4 DEF Failing
    <3>9. "code_binding" \notin Failing(checks)
      BY <3>2 DEF Failing
    <3>10. "policy" \notin Failing(checks)
      BY <3>2 DEF Failing
    <3>. HIDE DEF checks
    <3>. QED
      BY <2>1, <3>5, <3>6, <3>7, <3>8, <3>9, <3>10
  <2>4. c \in Verifiers => manifest[c].body.nonce \in seenNonces'
    BY <2>1 DEF Remembered
  <2>. HIDE DEF checks
  <2>. QED
    BY <1>0, <2>1, <2>2, <2>3, <2>4 DEF CallInv, OwnSigned, KeyOf, SignatureVerifies
<1>8. CASE Conclude(c)
  <2>. DEFINE checks == [code   |-> CodeMatches(manifest[c].body, loaded[c]),
                         policy |-> WithinPolicy(manifest[c].body)]
  <2>1. /\ phase[c] = "code"
        /\ failed'[c] = failed[c] \cup Failing(checks)
        /\ phase'[c] = IF failed'[c] = {} THEN "ok" ELSE "refused"
        /\ UNCHANGED <<issued, seenNonces, manifest, loaded>>
    BY <1>0, <1>8 DEF Conclude, TypeOK, Verdict
  <2>2. "code" \notin failed'[c] => CodeMatches(manifest[c].body, loaded[c])
    BY <2>1 DEF Failing
  <2>3. c \in Sessions => Failing(checks) \subseteq {"policy"}
    BY <1>0, <2>1 DEF Failing, CallInv, OwnSigned, CodeMatches
  <2>4. phase'[c] = "ok" => failed[c] = {}
    BY <2>1
  <2>. HIDE DEF checks
  <2>. QED
    BY <1>0, <2>1, <2>2, <2>3, <2>4 DEF CallInv, OwnSigned, KeyOf, SignatureVerifies
<1>. QED
  BY <1>1, <1>2, <1>3, <1>4, <1>5, <1>6, <1>7, <1>8

-----------------------------------------------------------------------------

\* Of two calls presented one nonce, the second to look finds it recorded.
LEMMA NonceStep ==
    ASSUME IInv, NEW c \in Calls,
           \/ c \in Sessions /\ (LoadWorker(c) \/ LoadKernels(c) \/ Issue(c)
                                 \/ VerifyOwn(c) \/ Launch(c))
           \/ c \in Verifiers /\ VerifyPresented(c)
           \/ Authenticate(c) \/ Conclude(c)
    PROVE  NonceFoundOnce'
<1>. USE DEF Authenticated
<1>0. TypeOK /\ NonceFoundOnce /\ \A d \in Calls : CallInv(d)
  BY DEF IInv
<1>1. ASSUME NEW d \in Verifiers, c # d
      PROVE  (FoundUnseen(d)' <=> FoundUnseen(d)) /\ manifest'[d] = manifest[d]
  BY <1>0, <1>1, OtherCalls DEF Calls
<1>2. CASE c \in Verifiers /\ FoundUnseen(c)'
  <2>1. Authenticate(c) \/ Conclude(c)
    BY <1>0, <1>2, ManifestAssumption DEF VerifyPresented, Begin, FoundUnseen,
           TypeOK, ManifestAssumption
  <2>2. manifest' = manifest
    BY <2>1 DEF Authenticate, Conclude
  <2>3. ASSUME NEW d \in Verifiers, c # d, FoundUnseen(d)
        PROVE  manifest[c].body.nonce # manifest[d].body.nonce
    <3>1. manifest[d].body.nonce \in seenNonces
      BY <1>0, <2>3 DEF CallInv, FoundUnseen, Calls
    <3>2. CASE Conclude(c)
      <4>1. FoundUnseen(c)
        BY <1>0, <1>2, <3>2 DEF Conclude, FoundUnseen, TypeOK
      <4>. QED
        BY <1>0, <1>2, <2>3, <4>1 DEF NonceFoundOnce
    <3>3. CASE Authenticate(c)
      <4>1. ~Replayed(c)
        BY <1>0, <1>2, <3>3 DEF Authenticate, FoundUnseen, Failing, TypeOK
      <4>. QED
        BY <1>2, <3>1, <4>1 DEF Replayed
    <3>. QED
      BY <2>1, <3>2, <3>3
  <2>. QED
    BY <1>0, <1>1, <2>2, <2>3 DEF NonceFoundOnce
<1>3. CASE ~(c \in Verifiers /\ FoundUnseen(c)')
  BY <1>0, <1>1, <1>3 DEF NonceFoundOnce
<1>. QED
  BY <1>2, <1>3

\* Every step keeps the inductive invariant.
LEMMA InductiveStep == IInv /\ [Next]_vars => IInv'
<1>. SUFFICES ASSUME IInv, [Next]_vars PROVE IInv'
  OBVIOUS
<1>1. TypeOK'
  BY TypeStep
<1>2. ASSUME NEW c \in Calls,
             \/ c \in Sessions /\ (LoadWorker(c) \/ LoadKernels(c) \/ Issue(c)
                                   \/ VerifyOwn(c) \/ Launch(c))
             \/ c \in Verifiers /\ VerifyPresented(c)
             \/ Authenticate(c) \/ Conclude(c)
      PROVE  IInv'
  <2>1. CallInv(c)'
    BY <1>1, <1>2, OwnStep
  <2>2. \A d \in Calls : CallInv(d)'
    BY <1>2, <2>1, OtherCalls DEF IInv
  <2>. QED
    BY <1>1, <1>2, <2>2, NonceStep DEF IInv
<1>3. CASE Tick \/ Deploy \/ UNCHANGED vars
  <2>1. UNCHANGED <<issued, seenNonces, calls>>
    BY <1>3 DEF Tick, Deploy, vars
  <2>. QED
    BY <1>1, <2>1 DEF IInv, CallInv, OwnSigned, KeyOf, NonceFoundOnce, FoundUnseen, calls
<1>. QED
  BY <1>2, <1>3 DEF Next, Calls

\* Every reachable state satisfies the inductive invariant.
THEOREM Invariance == Spec => []IInv
BY InitialInvariant, InductiveStep, PTL DEF Spec

\* Calls, manifests and code keep their types.
THEOREM TypeCorrect == Spec => []TypeOK
<1>1. IInv => TypeOK
  BY DEF IInv
<1>. QED
  BY <1>1, Invariance, PTL

\* A manifest is admitted once, however many calls verify it at a time.
THEOREM AdmittedOnce == Spec => []OneAdmissionPerNonce
<1>1. IInv => OneAdmissionPerNonce
  BY DEF IInv, OneAdmissionPerNonce, NonceFoundOnce, FoundUnseen, Authenticated,
         CallInv, Calls
<1>. QED
  BY <1>1, Invariance, PTL

\* What a third party admits is what the trusted key signed, for that code.
THEOREM AdmissionIsAuthentic == Spec => []AdmittedAsIssued
<1>1. ASSUME IInv, NEW c \in Verifiers, phase[c] = "ok"
      PROVE  /\ [body |-> manifest[c].body, by |-> TrustedKey] \in issued
             /\ loaded[c] = manifest[c].body.code
  <2>1. CallInv(c) /\ TypeOK /\ c \in Calls
    BY <1>1 DEF IInv, Calls
  <2>2. /\ manifest[c] # NoManifest /\ manifest[c].sig \in issued
        /\ SignatureVerifies(manifest[c], KeyOf(c))
        /\ CodeMatches(manifest[c].body, loaded[c]) /\ loaded[c] # NoCode
    BY <1>1, <2>1 DEF CallInv, Verifying, Authenticated
  <2>3. manifest[c] \in [body : Bodies, sig : Signatures] /\ loaded[c] \in Code
    BY <2>1, <2>2 DEF TypeOK
  <2>4. KeyOf(c) = TrustedKey
    BY ManifestAssumption DEF KeyOf, ManifestAssumption
  <2>5. manifest[c].sig = [body |-> manifest[c].body, by |-> TrustedKey]
    BY <2>2, <2>3, <2>4 DEF SignatureVerifies, Signatures
  <2>. QED
    BY <2>2, <2>3, <2>5, MatchingCodeIsEqual
<1>2. IInv => AdmittedAsIssued
  BY <1>1 DEF AdmittedAsIssued
<1>. QED
  BY <1>2, Invariance, PTL

\* A publisher's own session fails on what it declared or on time alone.
THEOREM OwnSessionsVerify == Spec => []OwnManifestStands
<1>1. IInv => OwnManifestStands
  BY DEF IInv, OwnManifestStands, CallInv, Calls
<1>. QED
  BY <1>1, Invariance, PTL
=============================================================================
