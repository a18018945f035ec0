--------------------------- MODULE ConsentManifest ---------------------------
(***************************************************************************)
(* Consent manifests: a publisher loads its code, issues a signed manifest *)
(* for it, verifies that and starts a session (zkpoc-sdk/src/session.js);  *)
(* third parties verify what is presented to them (verifyManifest() in     *)
(* zkpoc-ccm/src/ccm.js), sharing one set of nonces seen.  Verification    *)
(* awaits the signature and the code's digests; those are where calls      *)
(* interleave.                                                             *)
(*                                                                         *)
(* Cryptography is symbolic: a digest is what it digests, a thumbprint is  *)
(* its key, a signature says who signed what.                              *)
(***************************************************************************)
EXTENDS Integers, Sequences

CONSTANTS
    Sessions,    \* runSession() calls of the publisher
    Verifiers,   \* verifyManifest() calls of a third party
    Keys,        \* issuer keys
    TrustedKey,  \* the one the third party knows
    Sources,     \* source texts, standing for their digests too
    Bundles,     \* versions of the published code: [worker, kernels]
    Limits,      \* what manifests may declare: [share, energy, access]
    Policy,      \* the verifier's own limits, of the same form
    HardShare,   \* HARD_CAPS: no manifest may declare more
    Nonces,
    Ttl,         \* ttlSeconds
    Skew,        \* the minute of clock skew that is tolerated
    Drifts,      \* how far the third party's clock may be off
    MaxTime,     \* bound of the clock
    NoCode,      \* where a value is undefined
    NoManifest

Calls == Sessions \cup Verifiers
Code == [worker : Sources, kernels : Seq(Sources)]

\* An undefined number compares like one below all others: undefined > x is
\* false.
Undefined == -1
Terms == [share : Nat, energy : Nat \cup {Undefined}, access : 0 .. 2]

\* A manifest's body, and a signature: who signed what.
Bodies == [key_id : Keys, code : Code, limits : Limits, nonce : Nonces,
           issued_at : Int, expires_at : Int]
Signatures == [body : Bodies, by : Keys]

ASSUME ManifestAssumption ==
    /\ Sessions \cap Verifiers = {}
    /\ TrustedKey \in Keys
    /\ Bundles \subseteq Code
    /\ NoCode \notin Code
    /\ NoManifest \notin [body : Bodies, sig : Signatures]
    /\ Limits \subseteq Terms
    /\ Policy \in Terms
    /\ HardShare \in Nat
    /\ Ttl \in Int /\ Skew \in Nat /\ Drifts \subseteq Int /\ MaxTime \in Nat

VARIABLES
    clock,       \* the publisher's
    drift,       \* the third party's clock, less the publisher's
    served,      \* the version now behind the publisher's URLs
    issued,      \* the signatures made: [body, by]
    seenNonces,  \* the third party's opts.seenNonces
    phase,       \* what each call awaits, or how it ended
    manifest,    \* what it verifies: a body beside a signature
    loaded,      \* the code it has loaded, opts.loadedCode
    now,         \* opts.now, read when verification begins
    failed,      \* names of the checks that failed
    running      \* the code each session runs

world == <<clock, drift, served>>
calls == <<phase, manifest, loaded, now, failed>>
vars == <<world, issued, seenNonces, calls, running>>

-----------------------------------------------------------------------------
(* The checks of verifyManifest() *)

\* validateStructure(), reduced to the limits and the session's times.
WellFormed(body) ==
    /\ body.limits.share > 0
    /\ body.limits.share <= HardShare
    /\ body.expires_at > body.issued_at

\* verifySignature()
SignatureVerifies(m, key) == m.sig.by = key /\ m.sig.body = m.body

KeyBound(m, key) == m.body.key_id = key

Fresh(body, t) == t >= body.issued_at - Skew /\ t < body.expires_at

\* The definitions named ...Fault are plausible bugs in the one they precede.
\* Nothing uses them: they are there to be swapped in, to see that the
\* properties notice.
CodeMatchesFault(body, code) ==
    /\ code.worker = body.code.worker
    /\ \A i \in DOMAIN body.code.kernels :
          i \in DOMAIN code.kernels => code.kernels[i] = body.code.kernels[i]

\* The worker's digest, the number of kernels, and each kernel's digest.
CodeMatches(body, code) ==
    /\ code.worker = body.code.worker
    /\ Len(code.kernels) = Len(body.code.kernels)
    /\ \A i \in DOMAIN code.kernels : code.kernels[i] = body.code.kernels[i]

\* checkAgainstPolicy()
WithinPolicy(body) ==
    /\ body.limits.share <= Policy.share
    /\ Policy.energy # Undefined => ~(body.limits.energy > Policy.energy)
    /\ body.limits.access <= Policy.access

-----------------------------------------------------------------------------
(* The publisher's sessions *)

Init ==
    /\ clock = 0 /\ drift \in Drifts
    /\ served \in Bundles
    /\ issued = {} /\ seenNonces = {}
    /\ phase = [c \in Calls |-> "idle"]
    /\ manifest = [c \in Calls |-> NoManifest]
    /\ loaded = [c \in Calls |-> NoCode]
    /\ now = [c \in Calls |-> 0]
    /\ failed = [c \in Calls |-> {}]
    /\ running = [c \in Sessions |-> NoCode]

\* loadCodeFromUrls(): the worker first, the kernels (here in one turn) after.
LoadWorker(c) ==
    /\ phase[c] = "idle"
    /\ phase' = [phase EXCEPT ![c] = "kernels"]
    /\ loaded' =
          [loaded EXCEPT ![c] = [worker |-> served.worker, kernels |-> <<>>]]
    /\ UNCHANGED <<world, issued, seenNonces, manifest, now, failed, running>>

LoadKernels(c) ==
    /\ phase[c] = "kernels"
    /\ phase' = [phase EXCEPT ![c] = "loaded"]
    /\ loaded' = [loaded EXCEPT ![c].kernels = served.kernels]
    /\ UNCHANGED <<world, issued, seenNonces, manifest, now, failed, running>>

\* buildManifest(): the nonce is random, and so a new one.
Body(key, code, limits, nonce) ==
    [key_id |-> key, code |-> code, limits |-> limits, nonce |-> nonce,
     issued_at |-> clock, expires_at |-> clock + Ttl]

\* What issueSession() declares: the texts it was given.
DeclaredFault(c) == served

Declared(c) == loaded[c]

\* issueSession() up to the signature, which is made of what was built.
Issue(c) ==
    /\ phase[c] = "loaded"
    /\ \E key \in Keys, limits \in Limits, nonce \in Nonces :
          LET sig == [body |-> Body(key, Declared(c), limits, nonce), by |-> key]
          IN  /\ \A s \in issued : s.body.nonce # nonce
              /\ issued' = issued \cup {sig}
              /\ manifest' = [manifest EXCEPT ![c] = [body |-> sig.body, sig |-> sig]]
    /\ phase' = [phase EXCEPT ![c] = "signed"]
    /\ UNCHANGED <<world, seenNonces, loaded, now, failed, running>>

-----------------------------------------------------------------------------
(* verifyManifest() *)

\* Up to the first await: a malformed manifest is refused at once, and leaves
\* no trace.
Begin(c, body, t) ==
    /\ now' = [now EXCEPT ![c] = t]
    /\ failed' = [failed EXCEPT ![c] =
                    IF WellFormed(body) THEN {} ELSE {"structure"}]
    /\ phase' = [phase EXCEPT ![c] =
                   IF WellFormed(body) THEN "signature" ELSE "refused"]

\* The publisher verifies what it has signed, with its own key and no memory
\* of nonces.
VerifyOwn(c) ==
    /\ phase[c] = "signed"
    /\ Begin(c, manifest[c].body, clock)
    /\ UNCHANGED <<world, issued, seenNonces, manifest, loaded, running>>

\* What may reach a third party: what was signed, or that with one part
\* changed on the way (the buttons of the demo).
Presentable(body) ==
    {body}
    \cup {[body EXCEPT !.limits = l] : l \in Limits}
    \cup {[body EXCEPT !.code = b] : b \in Bundles}
    \cup {[body EXCEPT !.expires_at = @ + Ttl]}

VerifyPresented(c) ==
    /\ phase[c] = "idle"
    /\ \E sig \in issued, code \in Bundles \cup {NoCode} :
          \E body \in Presentable(sig.body) :
              /\ manifest' = [manifest EXCEPT ![c] = [body |-> body, sig |-> sig]]
              /\ loaded' = [loaded EXCEPT ![c] = code]
              /\ Begin(c, body, clock + drift)
    /\ UNCHANGED <<world, issued, seenNonces, running>>

KeyOf(c) == IF c \in Sessions THEN manifest[c].sig.by ELSE TrustedKey

Replayed(c) == c \in Verifiers /\ manifest[c].body.nonce \in seenNonces

RememberedFault(c) == {}

\* The nonce is recorded whatever else has failed.
Remembered(c) == IF c \in Verifiers THEN {manifest[c].body.nonce} ELSE {}

\* The names of the checks in a function that do not hold.
Failing(checks) == {name \in DOMAIN checks : ~checks[name]}

\* After the signature and the thumbprint.  Where no code was loaded there is
\* nothing more to await: the policy is looked at in the same turn, and the
\* call refused.
Authenticate(c) ==
    /\ phase[c] = "signature"
    /\ failed' = [failed EXCEPT ![c] = Failing(
                    [signature       |-> SignatureVerifies(manifest[c], KeyOf(c)),
                     key_binding     |-> KeyBound(manifest[c], KeyOf(c)),
                     validity_window |-> Fresh(manifest[c].body, now[c]),
                     nonce_freshness |-> ~Replayed(c),
                     code_binding    |-> loaded[c] # NoCode,
                     policy          |-> loaded[c] = NoCode =>
                                            WithinPolicy(manifest[c].body)])]
    /\ seenNonces' = seenNonces \cup Remembered(c)
    /\ phase' = [phase EXCEPT ![c] =
                   IF loaded[c] = NoCode THEN "refused" ELSE "code"]
    /\ UNCHANGED <<world, issued, manifest, loaded, now, running>>

VerdictFault(failures) == IF failures = {} THEN "accepted" ELSE "refused"

Verdict(failures) == IF failures = {} THEN "ok" ELSE "refused"

\* After the code's digests.
Conclude(c) ==
    /\ phase[c] = "code"
    /\ failed' = [failed EXCEPT ![c] = @ \cup Failing(
                    [code   |-> CodeMatches(manifest[c].body, loaded[c]),
                     policy |-> WithinPolicy(manifest[c].body)])]
    /\ phase' = [phase EXCEPT ![c] = Verdict(failed'[c])]
    /\ UNCHANGED <<world, issued, seenNonces, manifest, loaded, now, running>>

\* runSession() goes on to start() only what verified; start() gives a new
\* Worker the URL, which is fetched again.
Launch(c) ==
    /\ phase[c] = "ok"
    /\ running[c] = NoCode
    /\ running' = [running EXCEPT ![c] = served]
    /\ UNCHANGED <<world, issued, seenNonces, calls>>

-----------------------------------------------------------------------------

Tick ==
    /\ clock < MaxTime
    /\ clock' = clock + 1
    /\ UNCHANGED <<drift, served, issued, seenNonces, calls, running>>

\* The publisher puts another version behind the same URLs.
Deploy ==
    /\ served' \in Bundles \ {served}
    /\ UNCHANGED <<clock, drift, issued, seenNonces, calls, running>>

Next ==
    \/ \E c \in Sessions :
          \/ LoadWorker(c) \/ LoadKernels(c) \/ Issue(c) \/ VerifyOwn(c)
          \/ Launch(c)
    \/ \E c \in Verifiers : VerifyPresented(c)
    \/ \E c \in Calls : Authenticate(c) \/ Conclude(c)
    \/ Tick \/ Deploy

Spec == Init /\ [][Next]_vars

-----------------------------------------------------------------------------
(* Properties *)

CheckNames == {"structure", "signature", "key_binding", "validity_window",
               "nonce_freshness", "code_binding", "code", "policy"}

\* Type invariant.
TypeOK ==
    /\ clock \in 0 .. MaxTime /\ drift \in Drifts
    /\ served \in Bundles
    /\ issued \subseteq Signatures
    /\ seenNonces \subseteq Nonces
    /\ phase \in [Calls -> {"idle", "kernels", "loaded", "signed", "signature",
                             "code", "ok", "refused"}]
    /\ manifest \in [Calls -> [body : Bodies, sig : Signatures] \cup {NoManifest}]
    /\ loaded \in [Calls -> Code \cup {NoCode}]
    /\ now \in [Calls -> Int]
    /\ failed \in [Calls -> SUBSET CheckNames]
    /\ running \in [Sessions -> Bundles \cup {NoCode}]

\* However many calls verify at once, and whatever they are presented, a
\* manifest is admitted once: the test of the nonce and its recording happen
\* in one turn (ccm.js:182-187), although both ends of the call are awaits.
OneAdmissionPerNonce ==
    \A c, d \in Verifiers :
        phase[c] = "ok" /\ phase[d] = "ok" /\ c # d
            => manifest[c].body.nonce # manifest[d].body.nonce

\* What a third party admits is, to the letter, what the key it trusts has
\* signed, for exactly the code it was given: no check of a body beside
\* somebody else's signature, or of part of the code, passes for the whole.
AdmittedAsIssued ==
    \A c \in Verifiers : phase[c] = "ok" =>
        /\ [body |-> manifest[c].body, by |-> TrustedKey] \in issued
        /\ loaded[c] = manifest[c].body.code

\* A publisher's own session is never refused for its signature, its code or
\* a nonce, even if other code is deployed while it is being loaded: what can
\* fail is what it declared, or time (session.js:51-86).
OwnManifestStands ==
    \A c \in Sessions :
        failed[c] \subseteq {"structure", "policy", "validity_window"}

-----------------------------------------------------------------------------
(* What the documents say, and the code does not always do *)

\* The declared hashes "connect the promise to the bytes that actually
\* execute" (schema.js:20-21).
RunsWhatWasDeclared ==
    \A c \in Sessions :
        running[c] # NoCode => running[c] = manifest[c].body.code
=============================================================================
