---------------------------- MODULE TokenIssuer ----------------------------
(***************************************************************************)
(* The signing key of sandbox identity tokens: `hairpin keygen`, which     *)
(* writes a key file and its JWKS document, the issuer a server builds     *)
(* from the key file at start-up, and the document that server serves      *)
(* (cmd/hairpin/keygen.go, internal/tokenissuer).                          *)
(*                                                                         *)
(* Each keygen process generates a key of its own, named like the process; *)
(* "foreign" is a key an operator brought, which may be of a kind or in a   *)
(* file the loader refuses.  A file is Absent, Partial (created, nothing in *)
(* it yet) or what is in it.  KeyID is a digest of the public key alone, so *)
(* a key is its own key id.                                                *)
(***************************************************************************)
EXTENDS Integers

CONSTANTS
    Keygens,        \* runs of `hairpin keygen` with the same two paths
    NoKey

Absent  == [kind |-> "absent"]
Partial == [kind |-> "partial"]

PEM(block, curve, k) == [kind |-> "pem", block |-> block, curve |-> curve, key |-> k]

\* What an operator may have put there: a key as openssl writes it, one of
\* another curve, one of another kind, something that is no key.
Brought == {PEM("EC PRIVATE KEY", "P-256", "foreign"), PEM("EC PRIVATE KEY", "P-384", "foreign"),
            PEM("PRIVATE KEY", "RSA", "foreign"), PEM("CERTIFICATE", "P-256", "foreign")}

VARIABLES
    keyFile, jwksFile,      \* the two files keygen writes
    gpc,                    \* location of each keygen
    issuer,                 \* key of the running server's issuer, NoKey without a server
    token                   \* the last token minted, NoToken before

fileVars  == <<keyFile, jwksFile, gpc>>
issueVars == <<issuer, token>>
vars      == <<fileVars, issueVars>>

NoToken == [kid |-> NoKey, key |-> NoKey]

GenerateKey(g) == PEM("PRIVATE KEY", "P-256", g)

\* coords refuses another curve; every caller has one on P-256.
KeyID(k) == k
JWKSDocument(k) == [kind |-> "jwks", key |-> k, kid |-> KeyID(k)]

-----------------------------------------------------------------------------
(* hairpin keygen *)

\* OpenFile with O_EXCL.  Mutant: an existing file is truncated.
CreatesAlways(file) == TRUE
Creates(file) == file = Absent

At(g, from, to) == gpc[g] = from /\ gpc' = [gpc EXCEPT ![g] = to]

KeyCreate(g) ==
    /\ \/ Creates(keyFile) /\ At(g, "start", "key") /\ keyFile' = Partial
       \/ ~Creates(keyFile) /\ At(g, "start", "failed") /\ UNCHANGED keyFile
    /\ UNCHANGED <<jwksFile, issueVars>>

\* A write that fails leaves the file: what follows is not attempted.
KeyWrite(g) ==
    /\ \/ At(g, "key", "doc") /\ keyFile' = GenerateKey(g)
       \/ At(g, "key", "failed") /\ UNCHANGED keyFile
    /\ UNCHANGED <<jwksFile, issueVars>>

DocCreate(g) ==
    /\ \/ Creates(jwksFile) /\ At(g, "doc", "jwks") /\ jwksFile' = Partial
       \/ ~Creates(jwksFile) /\ At(g, "doc", "failed") /\ UNCHANGED jwksFile
    /\ UNCHANGED <<keyFile, issueVars>>

DocWrite(g) ==
    /\ \/ At(g, "jwks", "done") /\ jwksFile' = JWKSDocument(g)
       \/ At(g, "jwks", "failed") /\ UNCHANGED jwksFile
    /\ UNCHANGED <<keyFile, issueVars>>

\* An operator clears the way for a new key, both files at once, while no
\* keygen is under way (external); a running server is not touched.
Rotate ==
    /\ keyFile # Absent \/ jwksFile # Absent
    /\ \A g \in Keygens : gpc[g] \in {"start", "done", "failed", "past"}
    /\ \E g \in Keygens : gpc[g] = "start"
    /\ keyFile' = Absent /\ jwksFile' = Absent
    /\ gpc' = [g \in Keygens |-> IF gpc[g] = "start" THEN "start" ELSE "past"]
    /\ UNCHANGED issueVars

-----------------------------------------------------------------------------
(* The issuer of a running server *)

\* LoadKey and ParsePrivateKeyPEM: SEC1 holds only EC keys, PKCS8 also others.
LoadsKey(file) ==
    /\ file.kind = "pem"
    /\ file.block \in {"EC PRIVATE KEY", "PRIVATE KEY"}
    /\ file.curve = "P-256"

\* New, with settings Config.Validate accepted.  A key that does not load
\* ends the start-up.
New ==
    /\ issuer = NoKey /\ LoadsKey(keyFile)
    /\ issuer' = keyFile.key
    /\ UNCHANGED <<fileVars, token>>

\* The document JWKSHandler serves for GET and HEAD: made once, by New.
\* Mutant: made from the key file on every request.
ServedFromFile == IF keyFile.kind = "pem" THEN JWKSDocument(keyFile.key) ELSE Absent
Served == JWKSDocument(issuer)

\* Header and signature of a token; its claims are the issuer's settings.
Mint ==
    /\ issuer # NoKey
    /\ token' = [kid |-> KeyID(issuer), key |-> issuer]
    /\ UNCHANGED <<fileVars, issuer>>

\* The process ends, and its tokens are not looked at any more.
Exit ==
    /\ issuer # NoKey
    /\ issuer' = NoKey /\ token' = NoToken
    /\ UNCHANGED fileVars

-----------------------------------------------------------------------------

Init ==
    /\ keyFile \in {Absent} \cup Brought
    /\ jwksFile \in {Absent, JWKSDocument("foreign")}
    /\ gpc = [g \in Keygens |-> "start"]
    /\ issuer = NoKey /\ token = NoToken

runKeygen(g) == KeyCreate(g) \/ KeyWrite(g) \/ DocCreate(g) \/ DocWrite(g)

Next == (\E g \in Keygens : runKeygen(g)) \/ Rotate \/ New \/ Mint \/ Exit

Spec == Init /\ [][Next]_vars

-----------------------------------------------------------------------------
(* Properties *)

(* A keygen that reported success left the two files with one key between  *)
(* them, its own, whatever other keygens did with the same paths meanwhile. *)
KeygenPairs ==
    \A g \in Keygens : gpc[g] = "done" =>
        keyFile = GenerateKey(g) /\ jwksFile = JWKSDocument(g)

\* What a verifier does: finds the key by its id, checks the signature (external).
Verifies(t, doc) == doc.kind = "jwks" /\ doc.kid = t.kid /\ doc.key = t.key

(* A token verifies against the document its server serves, also after the *)
(* key file was replaced under the server; and against the file a          *)
(* successful keygen wrote beside the key it was signed with.              *)
MintedVerifies ==
    token # NoToken =>
        /\ Verifies(token, Served)
        /\ \A g \in Keygens : token.key = g /\ gpc[g] = "done" => Verifies(token, jwksFile)

=============================================================================
