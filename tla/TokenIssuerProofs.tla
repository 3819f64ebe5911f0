------------------------- MODULE TokenIssuerProofs -------------------------
(***************************************************************************)
(* Proofs about TokenIssuer, for any number of keygens on the same paths.  *)
(***************************************************************************)
EXTENDS TokenIssuer, TLAPS

\* The locations of a keygen between the creation of the key file and the
\* rotation that makes way for the next key.
Owning == {"key", "doc", "jwks", "done"}

\* What the files hold at each location of the keygen that created them: at
\* most one keygen is that far, since the key file is created once.
OwnerAt(g) ==
    /\ gpc[g] = "key" => keyFile = Partial
    /\ gpc[g] \in {"doc", "jwks", "done"} => keyFile = GenerateKey(g)
    /\ gpc[g] = "jwks" => jwksFile = Partial
    /\ gpc[g] = "done" => jwksFile = JWKSDocument(g)

OwnerInv ==
    /\ gpc \in [Keygens -> Owning \cup {"start", "failed", "past"}]
    /\ \A g \in Keygens : OwnerAt(g)
    /\ \A g, h \in Keygens : gpc[g] \in Owning /\ gpc[h] \in Owning => g = h

\* The kinds of file tell the files apart.
LEMMA Kinds ==
    /\ Partial # Absent
    /\ \A g : GenerateKey(g) # Absent
    BY DEF Partial, Absent, GenerateKey, PEM

\* O_EXCL keeps every other keygen out of both files.
LEMMA OwnerStep ==
    ASSUME OwnerInv, [Next]_vars
    PROVE  OwnerInv'
  <1>0. gpc \in [Keygens -> Owning \cup {"start", "failed", "past"}]
    BY DEF OwnerInv
  <1>1. \A g \in Keygens : gpc[g] \in Owning => keyFile # Absent
    BY Kinds DEF OwnerInv, OwnerAt, Owning
  <1>2. ASSUME NEW g \in Keygens, runKeygen(g) PROVE OwnerInv'
    <2>1. CASE KeyCreate(g) /\ Creates(keyFile)
      <3>1. gpc' = [gpc EXCEPT ![g] = "key"] /\ keyFile' = Partial
        BY <2>1 DEF KeyCreate, At
      <3>2. \A h \in Keygens : gpc[h] \notin Owning
        BY <1>1, <2>1 DEF Creates
      <3> QED  BY <1>0, <3>1, <3>2 DEF OwnerInv, OwnerAt, Owning
    <2>2. ASSUME gpc' = [gpc EXCEPT ![g] = "failed"], UNCHANGED <<keyFile, jwksFile>> PROVE OwnerInv'
      BY <1>0, <2>2 DEF OwnerInv, OwnerAt, Owning
    <2>3. \A h \in Keygens : h # g /\ gpc[g] \in Owning => gpc[h] \notin Owning
      BY DEF OwnerInv
    <2>4. CASE KeyWrite(g) /\ keyFile' = GenerateKey(g) /\ gpc' = [gpc EXCEPT ![g] = "doc"]
      BY <1>0, <2>3, <2>4 DEF KeyWrite, At, OwnerInv, OwnerAt, Owning
    <2>5. CASE DocCreate(g) /\ jwksFile' = Partial /\ At(g, "doc", "jwks")
      BY <1>0, <2>3, <2>5 DEF DocCreate, At, OwnerInv, OwnerAt, Owning
    <2>6. CASE DocWrite(g) /\ jwksFile' = JWKSDocument(g) /\ At(g, "jwks", "done")
      BY <1>0, <2>3, <2>6 DEF DocWrite, At, OwnerInv, OwnerAt, Owning
    <2> QED  BY <1>2, <2>1, <2>2, <2>4, <2>5, <2>6 DEF runKeygen, KeyCreate, KeyWrite, DocCreate, DocWrite, At
  <1>3. CASE Rotate
    <2>1. \A g \in Keygens : gpc'[g] \in {"start", "past"}
      BY <1>3 DEF Rotate
    <2>2. gpc' \in [Keygens -> {"start", "past"}]
      BY <1>3 DEF Rotate
    <2> QED  BY <2>1, <2>2 DEF OwnerInv, OwnerAt, Owning
  <1>4. CASE New \/ Mint \/ Exit \/ UNCHANGED vars
    BY <1>4 DEF New, Mint, Exit, vars, fileVars, OwnerInv, OwnerAt
  <1> QED  BY <1>2, <1>3, <1>4 DEF Next

LEMMA OwnerHolds == Spec => []OwnerInv
  <1>1. Init => OwnerInv
    BY DEF Init, OwnerInv, OwnerAt, Owning
  <1>2. OwnerInv /\ [Next]_vars => OwnerInv'
    BY OwnerStep
  <1> QED  BY <1>1, <1>2, PTL DEF Spec

\* A keygen that reports success has left its own key in both files, whatever
\* other keygens with the same paths did meanwhile (runKeygen, writeNew).
THEOREM KeysArePaired == Spec => []KeygenPairs
  <1>1. OwnerInv => KeygenPairs
    BY DEF OwnerInv, OwnerAt, KeygenPairs
  <1> QED  BY <1>1, OwnerHolds, PTL

\* A file that has been written is never overwritten (writeNew): it stays
\* until the operator takes it away, whatever keygens are run on its path.
NeverOverwritten ==
    [][/\ keyFile \notin {Absent, Partial} => keyFile' = keyFile \/ Rotate
       /\ jwksFile \notin {Absent, Partial} => jwksFile' = jwksFile \/ Rotate]_vars

\* No number of keygens, interleaved or failing in between, replaces a key
\* or a published document.
THEOREM FilesAreKept == Spec => NeverOverwritten
  <1>1. OwnerInv /\ [Next]_vars =>
           [/\ keyFile \notin {Absent, Partial} => keyFile' = keyFile \/ Rotate
            /\ jwksFile \notin {Absent, Partial} => jwksFile' = jwksFile \/ Rotate]_vars
    <2> SUFFICES ASSUME OwnerInv, Next
                 PROVE  /\ keyFile \notin {Absent, Partial} => keyFile' = keyFile \/ Rotate
                        /\ jwksFile \notin {Absent, Partial} => jwksFile' = jwksFile \/ Rotate
      OBVIOUS
    <2>1. ASSUME NEW g \in Keygens, KeyCreate(g) \/ DocCreate(g)
          PROVE  /\ keyFile # Absent => keyFile' = keyFile
                 /\ jwksFile # Absent => jwksFile' = jwksFile
      BY <2>1 DEF KeyCreate, DocCreate, Creates
    <2>2. ASSUME NEW g \in Keygens, KeyWrite(g)
          PROVE  (keyFile # Partial => keyFile' = keyFile) /\ jwksFile' = jwksFile
      BY <2>2 DEF KeyWrite, At, OwnerInv, OwnerAt
    <2>3. ASSUME NEW g \in Keygens, DocWrite(g)
          PROVE  (jwksFile # Partial => jwksFile' = jwksFile) /\ keyFile' = keyFile
      BY <2>3 DEF DocWrite, At, OwnerInv, OwnerAt
    <2>4. New \/ Mint \/ Exit => UNCHANGED <<keyFile, jwksFile>>
      BY DEF New, Mint, Exit, fileVars
    <2> QED  BY <2>1, <2>2, <2>3, <2>4 DEF Next, runKeygen
  <1> QED  BY <1>1, OwnerHolds, PTL DEF Spec, NeverOverwritten

\* A token that is looked at was signed by the running issuer, under its id.
MintInv ==
    /\ token \in [kid : {token.kid}, key : {token.key}]
    /\ token # NoToken => issuer # NoKey
    /\ token # NoToken => token.key = issuer /\ token.kid = KeyID(issuer)

\* A token verifies against the document served beside it, and against the
\* file of the keygen whose key signed it (Issuer.Mint, JWKSHandler): the
\* served document follows the issuer's key, not the key file.
THEOREM TokensVerify == Spec => []MintedVerifies
  <1>1. Init => MintInv
    BY DEF Init, MintInv, NoToken
  <1>2. MintInv /\ [Next]_vars => MintInv'
    <2> SUFFICES ASSUME MintInv, [Next]_vars PROVE MintInv'
      OBVIOUS
    <2>1. CASE UNCHANGED issueVars
      BY <2>1 DEF MintInv, issueVars
    <2>2. CASE New
      BY <2>2 DEF New, MintInv
    <2>3. CASE Mint
      BY <2>3 DEF Mint, MintInv, NoToken, KeyID
    <2>4. CASE Exit
      BY <2>4 DEF Exit, MintInv, NoToken
    <2> QED  BY <2>1, <2>2, <2>3, <2>4 DEF Next, runKeygen, KeyCreate, KeyWrite, DocCreate, DocWrite, Rotate, vars
  <1>3. MintInv /\ KeygenPairs => MintedVerifies
    BY DEF MintInv, KeygenPairs, MintedVerifies, Verifies, Served, JWKSDocument, KeyID
  <1> QED  BY <1>1, <1>2, <1>3, KeysArePaired, PTL DEF Spec

=============================================================================
