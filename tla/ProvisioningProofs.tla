------------------------- MODULE ProvisioningProofs -------------------------
(***************************************************************************)
(* Proofs about the administration of the mail server: GPG keys, DNS       *)
(* checks, rendered files, domains and mailboxes, for any number of        *)
(* requests, users, keys, boxes, files and records.                        *)
(***************************************************************************)
EXTENDS Provisioning, FiniteSetTheorems, WellFoundedInduction, TLAPS

-----------------------------------------------------------------------------
(* GPG keys: the inductive invariant.                                      *)

KeyRow == [exists : BOOLEAN, private : BOOLEAN, address : Owners \cup {"-"}]
StoreRequest == [op : {"generate", "import"}, user : Owners, print : Prints, address : Owners]
SignRequest == [op : {"sign"}, user : Owners, print : Prints]
DeleteRequest ==
    {r \in [op : {"delete"}, user : Owners, rows : UNION {[F -> BOOLEAN] : F \in SUBSET Prints}, left : SUBSET Prints] :
        r.left \subseteq DOMAIN r.rows}
EncryptRequest == [op : {"encrypt"}, user : Owners, chosen : UNION {[A -> Prints] : A \in SUBSET Owners}]
KeyRequest == {Idle} \cup StoreRequest \cup SignRequest \cup DeleteRequest \cup EncryptRequest

KeyTypes ==
    /\ keys \in [Owners -> [Prints -> KeyRow]] /\ maker \in [Prints -> Owners \cup {Unmade}]
    /\ public \in SUBSET Prints /\ secret \in SUBSET Prints
    /\ part = "keys" => req \in [Slots -> KeyRequest]

\* A key in the keyring whose row is still to come.
Generating(s, f) == part = "keys" /\ At(s, "generate") /\ req[s].print = f

\* A deletion that takes the secret key away.
Removing(s, f) == part = "keys" /\ At(s, "delete") /\ f \in DOMAIN req[s].rows /\ req[s].rows[f]

Signing(s, u, f) == part = "keys" /\ At(s, "sign") /\ req[s].user = u /\ req[s].print = f

\* Only the maker of a key ever has a private row of it, once it is stored; nobody else
\* can remove the secret key, and the maker not before the row is there.
RowsOfMakers == \A u \in Owners, f \in Prints : keys[u][f].private => maker[f] = u /\ \A s \in Slots : ~Generating(s, f)
Generated ==
    \A s \in Slots, f \in Prints : Generating(s, f) =>
        /\ maker[f] = req[s].user /\ f \in secret /\ f \in public
        /\ \A t \in Slots : ~Removing(t, f) /\ (Generating(t, f) => t = s)
RemovedByMakers == \A s \in Slots, f \in Prints : Removing(s, f) => maker[f] = req[s].user
SignedByMakers ==
    /\ \A s \in Slots, u \in Owners, f \in Prints : Signing(s, u, f) => maker[f] = u
    /\ \A x \in signed : x \in Owners \X Prints /\ maker[x[2]] = x[1]
HeldInKeyring == \A u \in Owners, f \in Prints : Held(u, f) => f \in secret /\ f \in public

KeyInv == KeyTypes /\ RowsOfMakers /\ Generated /\ RemovedByMakers /\ SignedByMakers /\ HeldInKeyring

-----------------------------------------------------------------------------
(* GPG keys: the proof.                                                    *)

LEMMA KeysStart == Init => KeyInv
<1> SUFFICES ASSUME Init PROVE KeyInv  OBVIOUS
<1>1. KeysInit /\ req = [s \in Slots |-> Idle]  BY DEF Init, RequestsInit
<1>2. \A s \in Slots : req[s].op = "idle"  BY <1>1 DEF Idle
<1>3. \A u \in Owners, f \in Prints : keys[u][f] = NoKeyRow  BY <1>1 DEF KeysInit
<1>4. KeyTypes  BY <1>1 DEF KeysInit, KeyTypes, KeyRow, NoKeyRow, KeyRequest
<1>5. \A u \in Owners, f \in Prints : ~keys[u][f].private  BY <1>3 DEF NoKeyRow
<1>6. signed = {}  BY <1>1 DEF KeysInit
<1> QED  BY <1>2, <1>4, <1>5, <1>6 DEF KeyInv, RowsOfMakers, Generated, RemovedByMakers, SignedByMakers, HeldInKeyring,
                                   Held, Generating, Removing, Signing, At

\* What a new request, a step and the end of one do to the requests.
LEMMA KeyRequestStep ==
    ASSUME KeyInv, part = "keys", NEW s \in Slots, NEW r \in KeyRequest, req' = [req EXCEPT ![s] = r]
    PROVE  req' \in [Slots -> KeyRequest] /\ req'[s] = r /\ \A t \in Slots \ {s} : req'[t] = req[t]
BY DEF KeyInv, KeyTypes

LEMMA KeyOps ==
    /\ Idle.op = "idle"
    /\ \A r \in StoreRequest : r.op \in {"generate", "import"} /\ r.user \in Owners /\ r.print \in Prints /\ r.address \in Owners
    /\ \A r \in SignRequest : r.op = "sign" /\ r.user \in Owners /\ r.print \in Prints
    /\ \A r \in DeleteRequest : r.op = "delete" /\ r.user \in Owners /\ r.left \in SUBSET Prints
                                /\ DOMAIN r.rows \in SUBSET Prints /\ \A f \in DOMAIN r.rows : r.rows[f] \in BOOLEAN
    /\ \A r \in EncryptRequest : r.op = "encrypt"
<1>1. \A r \in DeleteRequest : DOMAIN r.rows \in SUBSET Prints /\ \A f \in DOMAIN r.rows : r.rows[f] \in BOOLEAN
  <2> TAKE r \in DeleteRequest
  <2>1. PICK F \in SUBSET Prints : r.rows \in [F -> BOOLEAN]  BY DEF DeleteRequest
  <2> QED  BY <2>1
<1> QED  BY <1>1 DEF Idle, StoreRequest, SignRequest, DeleteRequest, EncryptRequest

LEMMA GenerateKeeps ==
    ASSUME KeyInv, part = "keys", NEW s \in Slots, NEW u \in Owners, NEW f \in Prints, generate_key(s, u, f)
    PROVE  KeyInv'
<1> DEFINE r == [op |-> "generate", user |-> u, print |-> f, address |-> u]
<1>1. /\ maker[f] = Unmade /\ req[s] = Idle /\ req' = [req EXCEPT ![s] = r] /\ part' = part
      /\ public' = public \cup {f} /\ secret' = secret \cup {f} /\ maker' = [maker EXCEPT ![f] = u]
      /\ keys' = keys /\ signed' = signed /\ opened' = opened /\ halved' = halved
  BY DEF generate_key, Begin
<1>2. r \in KeyRequest /\ r.op = "generate" /\ r.user = u /\ r.print = f  BY DEF KeyRequest, StoreRequest
<1>3. req' \in [Slots -> KeyRequest] /\ req'[s] = r /\ \A t \in Slots \ {s} : req'[t] = req[t]
  BY <1>1, <1>2, KeyRequestStep
<1>4. KeyTypes'  BY <1>1, <1>3 DEF KeyInv, KeyTypes
<1>5. maker'[f] = u /\ \A g \in Prints \ {f} : maker'[g] = maker[g]  BY <1>1 DEF KeyInv, KeyTypes
<1>6. \A t \in Slots, g \in Prints : Generating(t, g)' => Generating(t, g) \/ (t = s /\ g = f)
  BY <1>1, <1>2, <1>3 DEF Generating, At
<1>7. \A t \in Slots, g \in Prints : Removing(t, g)' => Removing(t, g) /\ t # s
  BY <1>1, <1>2, <1>3 DEF Removing, At
<1>8. \A t \in Slots, v \in Owners, g \in Prints : Signing(t, v, g)' => Signing(t, v, g)
  BY <1>1, <1>2, <1>3 DEF Signing, At
<1>9. \A v \in Owners, g \in Prints : Held(v, g)' => Held(v, g)
  BY <1>1, <1>2, <1>3, KeyOps DEF Held, Deleting, At
<1>10. \A v \in Owners : maker[f] # v  BY <1>1, KeysAssumption
<1>11. \A v \in Owners : ~keys[v][f].private  BY <1>10 DEF KeyInv, RowsOfMakers
<1>12. \A t \in Slots : ~Removing(t, f) /\ ~Generating(t, f)
  <2> SUFFICES ASSUME NEW t \in Slots, Removing(t, f) \/ Generating(t, f) PROVE FALSE  OBVIOUS
  <2>1. maker[f] = req[t].user  BY DEF KeyInv, RemovedByMakers, Generated
  <2>2. req[t].user \in Owners
    <3>1. req[t] \in KeyRequest /\ req[t].op \in {"generate", "delete"}  BY DEF KeyInv, KeyTypes, Removing, Generating, At
    <3> QED  BY <3>1, KeyOps DEF KeyRequest
  <2> QED  BY <2>1, <2>2, <1>10
<1>13. RowsOfMakers'  BY <1>1, <1>5, <1>6, <1>11 DEF KeyInv, RowsOfMakers
<1>14. Generated'
  <2> SUFFICES ASSUME NEW t \in Slots, NEW g \in Prints, Generating(t, g)'
               PROVE  /\ maker'[g] = req'[t].user /\ g \in secret' /\ g \in public'
                      /\ \A q \in Slots : ~Removing(q, g)' /\ (Generating(q, g)' => q = t)
    BY DEF Generated
  <2>1. CASE g = f  BY <2>1, <1>1, <1>2, <1>3, <1>5, <1>6, <1>7, <1>12
  <2>2. CASE g # f
    <3>1. Generating(t, g) /\ t # s  BY <2>2, <1>1, <1>2, <1>3, <1>6 DEF Generating, At
    <3> QED  BY <3>1, <2>2, <1>1, <1>3, <1>5, <1>6, <1>7 DEF KeyInv, Generated
  <2> QED  BY <2>1, <2>2
<1>15. RemovedByMakers'  BY <1>3, <1>5, <1>7, <1>12 DEF KeyInv, RemovedByMakers
<1>16. SignedByMakers'  BY <1>1, <1>5, <1>8, <1>10 DEF KeyInv, SignedByMakers
<1>17. HeldInKeyring'  BY <1>1, <1>9 DEF KeyInv, HeldInKeyring
<1> QED  BY <1>4, <1>13, <1>14, <1>15, <1>16, <1>17 DEF KeyInv

\* A step that begins, moves on or ends requests and changes no key: it may take a key
\* from the keyring, but not one that is held or being stored.
LEMMA KeyFrame ==
    ASSUME KeyInv, KeyTypes', keys' = keys, maker' = maker, part' = part, halved' = halved,
           \A t \in Slots, g \in Prints : Generating(t, g)' => Generating(t, g) /\ req'[t].user = req[t].user,
           \A t \in Slots, g \in Prints : Removing(t, g)' => maker[g] = req'[t].user /\ \A q \in Slots : ~Generating(q, g),
           \A t \in Slots, u \in Owners, g \in Prints : Signing(t, u, g)' => maker[g] = u,
           \A u \in Owners, g \in Prints : Held(u, g)' => Held(u, g),
           \A x \in signed' : x \in Owners \X Prints /\ maker[x[2]] = x[1],
           \A g \in Prints : (\E u \in Owners : Held(u, g)) \/ (\E t \in Slots : Generating(t, g))
                                => (g \in secret => g \in secret') /\ (g \in public => g \in public')
    PROVE  KeyInv'
<1>1. RowsOfMakers'  BY DEF KeyInv, RowsOfMakers
<1>2. Generated'
  <2> SUFFICES ASSUME NEW t \in Slots, NEW g \in Prints, Generating(t, g)'
               PROVE  /\ maker'[g] = req'[t].user /\ g \in secret' /\ g \in public'
                      /\ \A q \in Slots : ~Removing(q, g)' /\ (Generating(q, g)' => q = t)
    BY DEF Generated
  <2>1. Generating(t, g) /\ req'[t].user = req[t].user  OBVIOUS
  <2> QED  BY <2>1 DEF KeyInv, Generated
<1>3. RemovedByMakers'  BY DEF RemovedByMakers
<1>4. SignedByMakers'  BY DEF SignedByMakers
<1>5. HeldInKeyring'  BY DEF KeyInv, HeldInKeyring
<1> QED  BY <1>1, <1>2, <1>3, <1>4, <1>5 DEF KeyInv

\* Requests that begin, go on or end as none of the kinds that touch a private key.
LEMMA KeyOther ==
    ASSUME KeyInv, part = "keys", part' = part, NEW s \in Slots, NEW r \in {Idle} \cup {q \in KeyRequest : q.op \in {"import", "encrypt"}},
           req' = [req EXCEPT ![s] = r], req[s].op # "delete",
           keys' = keys, maker' = maker, halved' = halved, secret' = secret, public \subseteq public', public' \in SUBSET Prints,
           \A x \in signed' : x \in Owners \X Prints /\ maker[x[2]] = x[1]
    PROVE  KeyInv'
<1>1. r \in KeyRequest /\ r.op \notin {"generate", "sign", "delete"}  BY KeyOps DEF KeyRequest
<1>2. req' \in [Slots -> KeyRequest] /\ req'[s] = r /\ \A t \in Slots \ {s} : req'[t] = req[t]  BY <1>1, KeyRequestStep
<1>3. KeyTypes'  BY <1>2 DEF KeyInv, KeyTypes
<1>4. \A t \in Slots, g \in Prints : Generating(t, g)' => Generating(t, g) /\ req'[t] = req[t]
  BY <1>1, <1>2 DEF Generating, At
<1>5. \A t \in Slots, g \in Prints : Removing(t, g)' => Removing(t, g) /\ req'[t] = req[t]
  BY <1>1, <1>2 DEF Removing, At
<1>6. \A t \in Slots, u \in Owners, g \in Prints : Signing(t, u, g)' => Signing(t, u, g)
  BY <1>1, <1>2 DEF Signing, At
<1>7. \A u \in Owners, g \in Prints : Held(u, g)' => Held(u, g)
  BY <1>1, <1>2 DEF Held, Deleting, At
<1>8. \A t \in Slots, g \in Prints : Removing(t, g)' => maker[g] = req'[t].user /\ \A q \in Slots : ~Generating(q, g)
  BY <1>5 DEF KeyInv, RemovedByMakers, Generated
<1>9. \A t \in Slots, u \in Owners, g \in Prints : Signing(t, u, g)' => maker[g] = u
  BY <1>6 DEF KeyInv, SignedByMakers
<1> QED  BY <1>3, <1>4, <1>7, <1>8, <1>9, KeyFrame

LEMMA OtherKeyStepsKeep ==
    ASSUME KeyInv, part = "keys", NEW s \in Slots,
           \/ \E u, a \in Owners, f \in Prints : import_key(s, u, f, a)
           \/ \E u \in Owners, to \in SUBSET Owners \ {{}} : \E chosen \in [to -> Prints] : encrypt_message(s, u, chosen)
           \/ DetachedSignature(s) \/ Encrypted(s)
    PROVE  KeyInv'
<1>1. CASE \E u, a \in Owners, f \in Prints : import_key(s, u, f, a)
  <2>1. PICK u, a \in Owners, f \in Prints : import_key(s, u, f, a)  BY <1>1
  <2> DEFINE r == [op |-> "import", user |-> u, print |-> f, address |-> a]
  <2>2. r \in KeyRequest /\ r.op = "import"  BY DEF KeyRequest, StoreRequest
  <2>3. /\ req[s] = Idle /\ req' = [req EXCEPT ![s] = r] /\ part' = part /\ public' = public \cup {f}
        /\ keys' = keys /\ maker' = maker /\ halved' = halved /\ secret' = secret /\ signed' = signed
    BY <2>1 DEF import_key, Begin
  <2>4. req[s].op # "delete" /\ public' \in SUBSET Prints  BY <2>3, KeyOps DEF KeyInv, KeyTypes
  <2>5. \A x \in signed' : x \in Owners \X Prints /\ maker[x[2]] = x[1]  BY <2>3 DEF KeyInv, SignedByMakers
  <2> HIDE DEF r
  <2> QED  BY <2>2, <2>3, <2>4, <2>5, KeyOther
<1>2. CASE \E u \in Owners, to \in SUBSET Owners \ {{}} : \E chosen \in [to -> Prints] : encrypt_message(s, u, chosen)
  <2>1. PICK u \in Owners, to \in SUBSET Owners : \E chosen \in [to -> Prints] : encrypt_message(s, u, chosen)  BY <1>2
  <2>2. PICK chosen \in [to -> Prints] : encrypt_message(s, u, chosen)  BY <2>1
  <2> DEFINE r == [op |-> "encrypt", user |-> u, chosen |-> chosen]
  <2>3. r \in KeyRequest /\ r.op = "encrypt"  BY DEF KeyRequest, EncryptRequest
  <2>4. /\ req[s] = Idle /\ req' = [req EXCEPT ![s] = r] /\ part' = part /\ public' = public
        /\ keys' = keys /\ maker' = maker /\ halved' = halved /\ secret' = secret /\ signed' = signed
    BY <2>2 DEF encrypt_message, Begin, keyVars
  <2>5. req[s].op # "delete" /\ public' \in SUBSET Prints  BY <2>4, KeyOps DEF KeyInv, KeyTypes
  <2>6. \A x \in signed' : x \in Owners \X Prints /\ maker[x[2]] = x[1]  BY <2>4 DEF KeyInv, SignedByMakers
  <2> HIDE DEF r
  <2> QED  BY <2>3, <2>4, <2>5, <2>6, KeyOther
<1>3. CASE DetachedSignature(s) \/ Encrypted(s)
  <2>1. /\ req' = [req EXCEPT ![s] = Idle] /\ part' = part /\ public' = public /\ req[s].op \in {"sign", "encrypt"}
        /\ keys' = keys /\ maker' = maker /\ halved' = halved /\ secret' = secret
    BY <1>3 DEF DetachedSignature, Encrypted, End, Goto, At
  <2>2. \A x \in signed' : x \in Owners \X Prints /\ maker[x[2]] = x[1]
    <3>1. CASE signed' = signed  BY <3>1 DEF KeyInv, SignedByMakers
    <3>2. CASE DetachedSignature(s) /\ signed' = signed \cup {<<req[s].user, req[s].print>>}
      <4>1. req[s] \in SignRequest  BY <3>2, KeyOps DEF KeyInv, KeyTypes, KeyRequest, DetachedSignature, At
      <4>2. Signing(s, req[s].user, req[s].print)  BY <3>2 DEF Signing, DetachedSignature
      <4>3. maker[req[s].print] = req[s].user  BY <4>1, <4>2, KeyOps DEF KeyInv, SignedByMakers
      <4> QED  BY <3>2, <4>1, <4>3, KeyOps DEF KeyInv, SignedByMakers
    <3> QED  BY <1>3, <3>1, <3>2 DEF DetachedSignature, Encrypted
  <2>3. public' \in SUBSET Prints /\ Idle \in KeyRequest  BY <2>1 DEF KeyInv, KeyTypes, KeyRequest
  <2> QED  BY <2>1, <2>2, <2>3, KeyOther
<1> QED  BY <1>1, <1>2, <1>3

LEMMA SignKeeps ==
    ASSUME KeyInv, part = "keys", NEW s \in Slots, NEW u \in Owners, NEW a \in Owners, NEW f \in Prints, sign_message(s, u, a, f)
    PROVE  KeyInv'
<1> DEFINE r == [op |-> "sign", user |-> u, print |-> f]
<1>1. /\ req[s] = Idle /\ req' = [req EXCEPT ![s] = r] /\ part' = part /\ UNCHANGED keyVars /\ keys[u][f].private
  BY DEF sign_message, Begin
<1>2. r \in KeyRequest /\ r.op = "sign" /\ r.user = u /\ r.print = f  BY DEF KeyRequest, SignRequest
<1> HIDE DEF r
<1>3. req' \in [Slots -> KeyRequest] /\ req'[s] = r /\ \A t \in Slots \ {s} : req'[t] = req[t]  BY <1>1, <1>2, KeyRequestStep
<1>4. KeyTypes'  BY <1>1, <1>3 DEF KeyInv, KeyTypes, keyVars
<1>5. \A t \in Slots, g \in Prints : Generating(t, g)' => Generating(t, g) /\ req'[t] = req[t]
  BY <1>2, <1>3, <1>1 DEF Generating, At
<1>6. \A t \in Slots, g \in Prints : Removing(t, g)' => Removing(t, g) /\ req'[t] = req[t]
  BY <1>2, <1>3, <1>1 DEF Removing, At
<1>7. \A t \in Slots, v \in Owners, g \in Prints : Signing(t, v, g)' => Signing(t, v, g) \/ (v = u /\ g = f)
  BY <1>2, <1>3, <1>1 DEF Signing, At
<1>8. \A v \in Owners, g \in Prints : Held(v, g)' => Held(v, g)
  BY <1>1, <1>2, <1>3, KeyOps DEF Held, Deleting, At, keyVars
<1>9. \A t \in Slots, g \in Prints : Removing(t, g)' => maker[g] = req'[t].user /\ \A q \in Slots : ~Generating(q, g)
  BY <1>6 DEF KeyInv, RemovedByMakers, Generated
<1>10. \A t \in Slots, v \in Owners, g \in Prints : Signing(t, v, g)' => maker[g] = v
  BY <1>1, <1>7 DEF KeyInv, SignedByMakers, RowsOfMakers
<1>11. \A x \in signed' : x \in Owners \X Prints /\ maker[x[2]] = x[1]  BY <1>1 DEF KeyInv, SignedByMakers, keyVars
<1> QED  BY <1>1, <1>4, <1>5, <1>8, <1>9, <1>10, <1>11, KeyFrame DEF keyVars

LEMMA DeleteBeginKeeps ==
    ASSUME KeyInv, part = "keys", NEW s \in Slots, NEW u \in Owners, NEW a \in Owners, delete_key(s, u, a)
    PROVE  KeyInv'
<1> DEFINE F == get_key_for_address(u, a)
           r == [op |-> "delete", user |-> u, rows |-> [f \in F |-> keys[u][f].private], left |-> F]
<1>1. /\ req[s] = Idle /\ req' = [req EXCEPT ![s] = r] /\ part' = part /\ UNCHANGED keyVars
  BY DEF delete_key, Begin
<1>2. F \in SUBSET Prints /\ \A f \in F : keys[u][f].private \in BOOLEAN
  BY DEF get_key_for_address, KeyInv, KeyTypes, KeyRow
<1>3. /\ r \in KeyRequest /\ r.op = "delete" /\ r.user = u /\ DOMAIN r.rows = F
      /\ \A f \in F : r.rows[f] = keys[u][f].private
  BY <1>2 DEF KeyRequest, DeleteRequest
<1> HIDE DEF r
<1>4. req' \in [Slots -> KeyRequest] /\ req'[s] = r /\ \A t \in Slots \ {s} : req'[t] = req[t]  BY <1>1, <1>3, KeyRequestStep
<1>5. KeyTypes'  BY <1>1, <1>4 DEF KeyInv, KeyTypes, keyVars
<1>6. \A t \in Slots, g \in Prints : Generating(t, g)' => Generating(t, g) /\ req'[t] = req[t]
  BY <1>1, <1>3, <1>4 DEF Generating, At
<1>7. \A t \in Slots, g \in Prints : Removing(t, g)' => (Removing(t, g) /\ req'[t] = req[t]) \/ (t = s /\ keys[u][g].private)
  BY <1>1, <1>3, <1>4 DEF Removing, At
<1>8. \A t \in Slots, v \in Owners, g \in Prints : Signing(t, v, g)' => Signing(t, v, g)
  BY <1>1, <1>3, <1>4 DEF Signing, At
<1>9. \A v \in Owners, g \in Prints : Held(v, g)' => Held(v, g)
  <2> SUFFICES ASSUME NEW v \in Owners, NEW g \in Prints, NEW t \in Slots, Deleting(t, v, g) PROVE Deleting(t, v, g)'
    BY <1>1 DEF Held, keyVars
  <2>1. t # s  BY <1>1, KeyOps DEF Deleting, At
  <2> QED  BY <2>1, <1>1, <1>4 DEF Deleting, At
<1>10. \A t \in Slots, g \in Prints : Removing(t, g)' => maker[g] = req'[t].user /\ \A q \in Slots : ~Generating(q, g)
  BY <1>3, <1>4, <1>7 DEF KeyInv, RemovedByMakers, Generated, RowsOfMakers
<1>11. \A t \in Slots, v \in Owners, g \in Prints : Signing(t, v, g)' => maker[g] = v
  BY <1>8 DEF KeyInv, SignedByMakers
<1>12. \A x \in signed' : x \in Owners \X Prints /\ maker[x[2]] = x[1]  BY <1>1 DEF KeyInv, SignedByMakers, keyVars
<1> QED  BY <1>1, <1>5, <1>6, <1>9, <1>10, <1>11, <1>12, KeyFrame DEF keyVars

LEMMA KeyringDeleteKeeps ==
    ASSUME KeyInv, part = "keys", NEW s \in Slots, NEW f \in Prints, delete_from_keyring(s, f)
    PROVE  KeyInv'
<1> DEFINE r == [req[s] EXCEPT !.left = @ \ {f}]
<1>1. /\ At(s, "delete") /\ f \in req[s].left /\ req' = [req EXCEPT ![s] = r] /\ part' = part
      /\ secret' = IF req[s].rows[f] THEN secret \ {f} ELSE secret
      /\ public' = IF f \in secret' THEN public ELSE public \ {f}
      /\ UNCHANGED <<keys, maker, signed, opened, halved>>
  BY DEF delete_from_keyring, Goto
<1>2. req[s] \in DeleteRequest  BY <1>1, KeyOps DEF KeyInv, KeyTypes, KeyRequest, At
<1>3. /\ r \in KeyRequest /\ r.op = "delete" /\ r.user = req[s].user /\ r.rows = req[s].rows
  BY <1>2 DEF KeyRequest, DeleteRequest
<1> HIDE DEF r
<1>4. req' \in [Slots -> KeyRequest] /\ req'[s] = r /\ \A t \in Slots \ {s} : req'[t] = req[t]  BY <1>1, <1>3, KeyRequestStep
<1>5. KeyTypes'  BY <1>1, <1>4 DEF KeyInv, KeyTypes
<1>6. \A t \in Slots, g \in Prints : Generating(t, g)' => Generating(t, g) /\ req'[t] = req[t]
  BY <1>1, <1>3, <1>4 DEF Generating, At
<1>7. \A t \in Slots, g \in Prints : Removing(t, g)' => Removing(t, g) /\ req'[t].user = req[t].user
  BY <1>1, <1>3, <1>4 DEF Removing, At
<1>8. \A t \in Slots, v \in Owners, g \in Prints : Signing(t, v, g)' => Signing(t, v, g)
  BY <1>1, <1>3, <1>4 DEF Signing, At
<1>9. \A v \in Owners, g \in Prints : Held(v, g)' => Held(v, g)
  <2> SUFFICES ASSUME NEW v \in Owners, NEW g \in Prints, NEW t \in Slots, Deleting(t, v, g) PROVE Deleting(t, v, g)'
    BY <1>1 DEF Held
  <2> QED  BY <1>1, <1>3, <1>4 DEF Deleting, At
<1>10. \A t \in Slots, g \in Prints : Removing(t, g)' => maker[g] = req'[t].user /\ \A q \in Slots : ~Generating(q, g)
  BY <1>7 DEF KeyInv, RemovedByMakers, Generated
<1>11. \A t \in Slots, v \in Owners, g \in Prints : Signing(t, v, g)' => maker[g] = v
  BY <1>8 DEF KeyInv, SignedByMakers
<1>12. \A x \in signed' : x \in Owners \X Prints /\ maker[x[2]] = x[1]  BY <1>1 DEF KeyInv, SignedByMakers
<1>13. ASSUME NEW g \in Prints, (\E u \in Owners : Held(u, g)) \/ (\E t \in Slots : Generating(t, g))
       PROVE  (g \in secret => g \in secret') /\ (g \in public => g \in public')
  <2>1. CASE ~req[s].rows[f]
    <3>1. secret' = secret  BY <1>1, <2>1
    <3>2. g \in secret  BY <1>13 DEF KeyInv, HeldInKeyring, Generated
    <3> QED  BY <3>1, <3>2, <1>1
  <2>2. CASE req[s].rows[f]
    <3>1. f \in DOMAIN req[s].rows /\ f \in Prints  BY <1>1, <1>2 DEF DeleteRequest
    <3>2. Removing(s, f)  BY <1>1, <2>2, <3>1 DEF Removing
    <3>3. maker[f] = req[s].user /\ \A t \in Slots : ~Generating(t, f)  BY <3>2 DEF KeyInv, RemovedByMakers, Generated
    <3>4. \A u \in Owners : ~Held(u, f)
      <4> SUFFICES ASSUME NEW u \in Owners, Held(u, f) PROVE FALSE  OBVIOUS
      <4>1. maker[f] = u  BY DEF Held, KeyInv, RowsOfMakers
      <4>2. Deleting(s, u, f)  BY <4>1, <3>1, <3>3, <1>1 DEF Deleting
      <4> QED  BY <4>2 DEF Held
    <3>5. g # f  BY <1>13, <3>3, <3>4
    <3> QED  BY <3>5, <1>1
  <2> QED  BY <2>1, <2>2
<1> QED  BY <1>1, <1>5, <1>6, <1>9, <1>10, <1>11, <1>12, <1>13, KeyFrame

LEMMA StoreKeeps ==
    ASSUME KeyInv, part = "keys", NEW s \in Slots, StoreKey(s)
    PROVE  KeyInv'
<1> DEFINE u == req[s].user  f == req[s].print
           p == IF ~keys[u][f].exists THEN req[s].op = "generate" ELSE keys[u][f].private
           k == [exists |-> TRUE, address |-> req[s].address, private |-> p]
<1>1. /\ req[s].op \in {"generate", "import"} /\ req' = [req EXCEPT ![s] = Idle] /\ part' = part
      /\ keys' = [keys EXCEPT ![u][f] = k]
      /\ UNCHANGED <<public, secret, maker, signed, opened, halved>>
  BY DEF StoreKey, End, Goto
<1>2. u \in Owners /\ f \in Prints /\ req[s].address \in Owners
  BY <1>1, KeyOps DEF KeyInv, KeyTypes, KeyRequest
<1>3. req' \in [Slots -> KeyRequest] /\ req'[s] = Idle /\ \A t \in Slots \ {s} : req'[t] = req[t]
  BY <1>1, KeyRequestStep DEF KeyRequest
<1>4. p \in BOOLEAN /\ (p => keys[u][f].private \/ Generating(s, f))
  BY <1>1, <1>2 DEF KeyInv, KeyTypes, KeyRow, Generating, At
<1>5. k \in KeyRow /\ k.private = p  BY <1>2, <1>4 DEF KeyRow
<1> HIDE DEF k, p
<1>6. keys' \in [Owners -> [Prints -> KeyRow]]  BY <1>1, <1>2, <1>5 DEF KeyInv, KeyTypes
<1>7. \A v \in Owners, g \in Prints : keys'[v][g] = IF v = u /\ g = f THEN k ELSE keys[v][g]
  BY <1>1, <1>2 DEF KeyInv, KeyTypes
<1>8. KeyTypes'  BY <1>1, <1>3, <1>6 DEF KeyInv, KeyTypes
<1>9. \A t \in Slots, g \in Prints : Generating(t, g)' => Generating(t, g) /\ t # s /\ req'[t] = req[t]
  BY <1>1, <1>3, KeyOps DEF Generating, At
<1>10. \A t \in Slots, g \in Prints : Removing(t, g)' => Removing(t, g) /\ req'[t] = req[t]
  BY <1>1, <1>3, KeyOps DEF Removing, At
<1>11. \A t \in Slots, v \in Owners, g \in Prints : Signing(t, v, g)' => Signing(t, v, g)
  BY <1>1, <1>3, KeyOps DEF Signing, At
<1>12. \A v \in Owners, g \in Prints : keys'[v][g].private => keys[v][g].private \/ (v = u /\ g = f /\ Generating(s, f))
  BY <1>4, <1>5, <1>7
<1>13. RowsOfMakers'
  <2> SUFFICES ASSUME NEW v \in Owners, NEW g \in Prints, keys'[v][g].private
               PROVE  maker[g] = v /\ \A t \in Slots : ~Generating(t, g)'
    BY <1>1 DEF RowsOfMakers
  <2>1. CASE keys[v][g].private  BY <2>1, <1>9 DEF KeyInv, RowsOfMakers
  <2>2. CASE v = u /\ g = f /\ Generating(s, f)  BY <2>2, <1>9 DEF KeyInv, Generated
  <2> QED  BY <2>1, <2>2, <1>12
<1>14. Generated'
  <2> SUFFICES ASSUME NEW t \in Slots, NEW g \in Prints, Generating(t, g)'
               PROVE  /\ maker'[g] = req'[t].user /\ g \in secret' /\ g \in public'
                      /\ \A q \in Slots : ~Removing(q, g)' /\ (Generating(q, g)' => q = t)
    BY DEF Generated
  <2> QED  BY <1>1, <1>9, <1>10 DEF KeyInv, Generated
<1>15. RemovedByMakers'  BY <1>1, <1>10 DEF KeyInv, RemovedByMakers
<1>16. SignedByMakers'  BY <1>1, <1>11 DEF KeyInv, SignedByMakers
<1>17. HeldInKeyring'
  <2> SUFFICES ASSUME NEW v \in Owners, NEW g \in Prints, Held(v, g)' PROVE g \in secret /\ g \in public
    BY <1>1 DEF HeldInKeyring
  <2>1. CASE Generating(s, g)  BY <2>1 DEF KeyInv, Generated
  <2>2. CASE ~Generating(s, g)
    <3>1. keys[v][g].private  BY <2>2, <1>12 DEF Held
    <3>2. \A t \in Slots : Deleting(t, v, g) => Deleting(t, v, g)'  BY <1>1, <1>3 DEF Deleting, At
    <3>3. Held(v, g)  BY <3>1, <3>2, <1>1 DEF Held
    <3> QED  BY <3>3 DEF KeyInv, HeldInKeyring
  <2> QED  BY <2>1, <2>2
<1> QED  BY <1>8, <1>13, <1>14, <1>15, <1>16, <1>17 DEF KeyInv

LEMMA CommitDeleteKeeps ==
    ASSUME KeyInv, part = "keys", NEW s \in Slots, CommitDelete(s)
    PROVE  KeyInv'
<1> DEFINE u == req[s].user  F == DOMAIN req[s].rows
<1>1. /\ At(s, "delete") /\ req' = [req EXCEPT ![s] = Idle] /\ part' = part
      /\ keys' = [keys EXCEPT ![u] = [f \in Prints |-> IF f \in F THEN NoKeyRow ELSE @[f]]]
      /\ UNCHANGED <<public, secret, maker, signed, opened, halved>>
  BY DEF CommitDelete, End, Goto
<1>2. u \in Owners  BY <1>1, KeyOps DEF KeyInv, KeyTypes, KeyRequest, At
<1>3. req' \in [Slots -> KeyRequest] /\ req'[s] = Idle /\ \A t \in Slots \ {s} : req'[t] = req[t]
  BY <1>1, KeyRequestStep DEF KeyRequest
<1>4. \A v \in Owners, g \in Prints : keys'[v][g] = IF v = u /\ g \in F THEN NoKeyRow ELSE keys[v][g]
  BY <1>1, <1>2 DEF KeyInv, KeyTypes
<1>5. keys' \in [Owners -> [Prints -> KeyRow]]
  <2>1. NoKeyRow \in KeyRow  BY DEF NoKeyRow, KeyRow
  <2>2. [f \in Prints |-> IF f \in F THEN NoKeyRow ELSE keys[u][f]] \in [Prints -> KeyRow]
    BY <2>1, <1>2 DEF KeyInv, KeyTypes
  <2> QED  BY <1>1, <1>2, <2>2 DEF KeyInv, KeyTypes
<1>6. KeyTypes'  BY <1>1, <1>3, <1>5 DEF KeyInv, KeyTypes
<1>7. \A t \in Slots, g \in Prints : Generating(t, g)' => Generating(t, g) /\ t # s /\ req'[t] = req[t]
  BY <1>1, <1>3, KeyOps DEF Generating, At
<1>8. \A t \in Slots, g \in Prints : Removing(t, g)' => Removing(t, g) /\ req'[t] = req[t]
  BY <1>1, <1>3, KeyOps DEF Removing, At
<1>9. \A t \in Slots, v \in Owners, g \in Prints : Signing(t, v, g)' => Signing(t, v, g)
  BY <1>1, <1>3, KeyOps DEF Signing, At
<1>10. \A v \in Owners, g \in Prints : keys'[v][g].private => keys[v][g].private /\ ~(v = u /\ g \in F)
  BY <1>4 DEF NoKeyRow
<1>11. RowsOfMakers'  BY <1>1, <1>7, <1>10 DEF KeyInv, RowsOfMakers
<1>12. Generated'
  <2> SUFFICES ASSUME NEW t \in Slots, NEW g \in Prints, Generating(t, g)'
               PROVE  /\ maker'[g] = req'[t].user /\ g \in secret' /\ g \in public'
                      /\ \A q \in Slots : ~Removing(q, g)' /\ (Generating(q, g)' => q = t)
    BY DEF Generated
  <2> QED  BY <1>1, <1>7, <1>8 DEF KeyInv, Generated
<1>13. RemovedByMakers'  BY <1>1, <1>8 DEF KeyInv, RemovedByMakers
<1>14. SignedByMakers'  BY <1>1, <1>9 DEF KeyInv, SignedByMakers
<1>15. HeldInKeyring'
  <2> SUFFICES ASSUME NEW v \in Owners, NEW g \in Prints, Held(v, g)' PROVE g \in secret /\ g \in public
    BY <1>1 DEF HeldInKeyring
  <2>1. keys[v][g].private /\ ~(v = u /\ g \in F)  BY <1>10 DEF Held
  <2>2. \A t \in Slots : Deleting(t, v, g) => Deleting(t, v, g)'  BY <2>1, <1>1, <1>3 DEF Deleting, At
  <2>3. Held(v, g)  BY <2>1, <2>2, <1>1 DEF Held
  <2> QED  BY <2>3 DEF KeyInv, HeldInKeyring
<1> QED  BY <1>6, <1>11, <1>12, <1>13, <1>14, <1>15 DEF KeyInv

\* A restart ends all requests; the rows whose keys were being removed are no longer held.
LEMMA KeysRestartKeeps == KeyInv /\ Restart => KeyInv'
<1> SUFFICES ASSUME KeyInv, Restart PROVE KeyInv'  OBVIOUS
<1>1. /\ req' = [s \in Slots |-> Idle] /\ part' = part
      /\ halved' = halved \cup {x \in Owners \X Prints : \E s \in Slots : Deleting(s, x[1], x[2])}
      /\ UNCHANGED <<keys, public, secret, maker, signed, opened>>
  BY DEF Restart, KeysRestart
<1>2. KeyTypes'  BY <1>1 DEF KeyInv, KeyTypes, KeyRequest
<1>3. \A s \in Slots : req'[s].op = "idle"  BY <1>1, KeyOps
<1>4. \A u \in Owners, f \in Prints : Held(u, f)' => Held(u, f)
  <2> SUFFICES ASSUME NEW u \in Owners, NEW f \in Prints, Held(u, f)' PROVE Held(u, f)  OBVIOUS
  <2>1. <<u, f>> \notin halved'  BY DEF Held
  <2>2. ~\E s \in Slots : Deleting(s, u, f)  BY <2>1, <1>1
  <2> QED  BY <2>1, <2>2, <1>1 DEF Held
<1>5. \A s \in Slots, f \in Prints : ~Generating(s, f)' /\ ~Removing(s, f)'  BY <1>3 DEF Generating, Removing, At
<1>6. \A s \in Slots, u \in Owners, f \in Prints : ~Signing(s, u, f)'  BY <1>3 DEF Signing, At
<1>7. RowsOfMakers' /\ Generated' /\ RemovedByMakers'
  BY <1>1, <1>5 DEF KeyInv, RowsOfMakers, Generated, RemovedByMakers
<1>8. SignedByMakers'  BY <1>1, <1>6 DEF KeyInv, SignedByMakers
<1>9. HeldInKeyring'  BY <1>1, <1>4 DEF KeyInv, HeldInKeyring
<1> QED  BY <1>2, <1>7, <1>8, <1>9 DEF KeyInv

\* Steps of the other interfaces leave rows and keyring alone.
LEMMA KeysElsewhereKeep ==
    ASSUME KeyInv, part # "keys", part' = part, UNCHANGED keyVars
    PROVE  KeyInv'
<1>1. KeyTypes'  BY DEF KeyInv, KeyTypes, keyVars
<1>2. \A s \in Slots, f \in Prints : ~Generating(s, f)' /\ ~Removing(s, f)'  BY DEF Generating, Removing
<1>3. \A s \in Slots, u \in Owners, f \in Prints : ~Signing(s, u, f)' /\ ~Deleting(s, u, f)  BY DEF Signing, Deleting
<1>4. RowsOfMakers' /\ Generated' /\ RemovedByMakers' /\ SignedByMakers'
  BY <1>2, <1>3 DEF KeyInv, RowsOfMakers, Generated, RemovedByMakers, SignedByMakers, keyVars
<1>5. HeldInKeyring'  BY <1>3 DEF KeyInv, HeldInKeyring, Held, keyVars
<1> QED  BY <1>1, <1>4, <1>5 DEF KeyInv

\* No step changes the interface.
LEMMA SamePart == Next => part' = part
<1>1. ASSUME MailboxesStep PROVE part' = part
  <2>1. ASSUME NEW s \in Slots, MailboxStep(s) PROVE part' = part
    <3>1. \A r : Begin(s, r) \/ Goto(s, r) \/ Open(s, r) => part' = part  BY DEF Begin, Goto, Open
    <3>2. CASE \/ \E u \in Users, b \in Boxes : create_new_mailbox(s, u, b) \/ delete_existing_mailbox(s, u, b)
               \/ \E d \in Domains : create_domain(s, d) \/ remove_domain(s, d)
               \/ \E ok \in BOOLEAN : ReadUsersFile(s, ok) \/ update_server_settings(s, ok)
      BY <3>1, <3>2 DEF create_new_mailbox, delete_existing_mailbox, create_domain, remove_domain, ReadUsersFile,
         update_server_settings, Step, End
    <3>3. CASE \/ create_mailbox(s) \/ undo_create(s) \/ delete_mailbox(s) \/ remove_from_dovecot_users(s)
               \/ \E n \in 0..3 : provision_system_mailbox(s, n)
      BY <3>1, <3>3 DEF create_mailbox, undo_create, delete_mailbox, remove_from_dovecot_users,
         provision_system_mailbox, Step, End
    <3>4. CASE \/ ReadMailboxRows(s) \/ rebuild_postfix_virtual_mailboxes(s) \/ add_domain(s) \/ ReadDomains(s)
               \/ rebuild_opendkim_tables(s) \/ rebuild_postfix_virtual_domains(s) \/ reload_mail_services(s)
      BY <3>1, <3>4 DEF ReadMailboxRows, rebuild_postfix_virtual_mailboxes, add_domain, ReadDomains,
         rebuild_opendkim_tables, rebuild_postfix_virtual_domains, reload_mail_services, Step, End
    <3> QED  BY <2>1, <3>2, <3>3, <3>4 DEF MailboxStep
  <2> QED  BY <1>1, <2>1 DEF MailboxesStep, list_all_mailboxes, CatchAllDelivery, Serve, requestVars
<1>2. ASSUME ConfigStep PROVE part' = part
  BY <1>2 DEF ConfigStep, create_alias, update_alias, delete_alias, ReadAliases, rebuild_postfix_virtual_aliases,
     create_tunnel, update_tunnel, delete_tunnel, reload_tunnels_config, build_tunnels_payload, write_tunnels_json,
     health_check, CommitHealth, upload_tls_certificate, WriteCert, write_certs_to_disk, Change, Begin, Goto, Step, End
<1>3. ASSUME KeysStep PROVE part' = part
  BY <1>3 DEF KeysStep, generate_key, import_key, sign_message, delete_key, encrypt_message, StoreKey, CommitDelete,
     DetachedSignature, Encrypted, delete_from_keyring, Begin, Goto, End
<1>4. ASSUME DnsStep PROVE part' = part
  BY <1>4 DEF DnsStep, verify_domain_dns, get_dns_state, StartCheck, verify_dns, compute_dns_state, Lookup, Publish,
     EnableRelay, Begin, Goto, End, Serve
<1>5. Restart => part' = part  BY DEF Restart
<1> QED  BY <1>1, <1>2, <1>3, <1>4, <1>5 DEF Next

LEMMA KeysNext == KeyInv /\ [Next]_vars => KeyInv'
<1> SUFFICES ASSUME KeyInv, [Next]_vars PROVE KeyInv'  OBVIOUS
<1>1. CASE Only("keys") /\ KeysStep
  <2>1. part = "keys"  BY <1>1 DEF Only
  <2>2. PICK s \in Slots :
          \/ \E u \in Owners, f \in Prints :
                \/ generate_key(s, u, f)
                \/ \E a \in Owners : import_key(s, u, f, a) \/ sign_message(s, u, a, f)
          \/ \E u, a \in Owners : delete_key(s, u, a)
          \/ \E u \in Owners, to \in SUBSET Owners \ {{}} : \E chosen \in [to -> Prints] : encrypt_message(s, u, chosen)
          \/ StoreKey(s) \/ CommitDelete(s) \/ DetachedSignature(s) \/ Encrypted(s)
          \/ \E f \in Prints : delete_from_keyring(s, f)
    BY <1>1 DEF KeysStep
  <2> QED  BY <2>1, <2>2, GenerateKeeps, OtherKeyStepsKeep, SignKeeps, DeleteBeginKeeps, StoreKeeps, CommitDeleteKeeps,
              KeyringDeleteKeeps
<1>2. CASE Restart  BY <1>2, KeysRestartKeeps
<1>3. CASE ~(Only("keys") /\ KeysStep) /\ Next /\ ~Restart
  <2>1. part # "keys" /\ UNCHANGED keyVars  BY <1>3 DEF Next, Only
  <2> QED  BY <2>1, <1>3, SamePart, KeysElsewhereKeep
<1>4. CASE UNCHANGED vars
  <2>1. UNCHANGED <<part, req, keys, public, secret, maker, signed, opened, halved>>
    BY <1>4 DEF vars, requestVars, keyVars
  <2> QED  BY <2>1 DEF KeyInv, KeyTypes, RowsOfMakers, Generated, RemovedByMakers, SignedByMakers, HeldInKeyring,
                  Held, Deleting, Generating, Removing, Signing, At
<1> QED  BY <1>1, <1>2, <1>3, <1>4 DEF Next

\* A user with a private row can sign, have his signatures checked and read what was
\* encrypted for him, and signs with keys he made only, whoever shares the keyring.
THEOREM KeysAlwaysSound == Spec => []KeysSound
<1>1. KeyInv => KeysSound
  <2> SUFFICES ASSUME KeyInv PROVE PrivateKeysUsable /\ SignaturesByMaker  BY DEF KeysSound
  <2>1. PrivateKeysUsable
    BY DEF KeyInv, HeldInKeyring, PrivateKeysUsable, verify_signature, decrypt_message
  <2>2. SignaturesByMaker  BY DEF KeyInv, SignedByMakers, SignaturesByMaker
  <2> QED  BY <2>1, <2>2
<1> QED  BY KeysStart, KeysNext, <1>1, PTL DEF Spec

-----------------------------------------------------------------------------
(* Aliases, tunnels and the certificate: the inductive invariant.          *)

AliasRequest == [op : {"read_aliases", "write_aliases"}, file : {"aliases"}, id : Aliases, copy : {<<>>} \cup [Aliases -> Nat]]
TunnelRequest == [op : {"read_tunnels", "write_tunnels"}, file : {"tunnels"}, id : Tunnels \cup {"-"}, copy : {<<>>} \cup [Tunnels -> Nat]]
CertRequest == [op : {"write_cert", "write_key"}, file : {"certs"}, id : Nat, copy : {<<>>}]
ProbeRequest == [op : {"probe"}, file : {"-"}, id : Tunnels, copy : Nat]
FileRequest == {Idle} \cup AliasRequest \cup TunnelRequest \cup CertRequest \cup ProbeRequest

FileTypes ==
    /\ alias \in [Aliases -> Nat] /\ enabled \in [Aliases -> BOOLEAN] /\ tunnel \in [Tunnels -> Nat]
    /\ cert \in Nat /\ cert_files \in [crt : Nat, key : Nat]
    /\ part = "files" => req \in [Slots -> FileRequest]

\* A request that will write file f; requests about a file that is not behind take turns.
Writing(s, f) == part = "files" /\ req[s] # Idle /\ req[s].file = f
Alone(f) == \A s, t \in Slots : Writing(s, f) /\ Writing(t, f) => s = t

\* A file is current, or the one request about it will make it so.
AliasFile ==
    "aliases" \notin behind =>
        /\ Alone("aliases")
        /\ (\A s \in Slots : ~Writing(s, "aliases")) => valias = AliasLines
        /\ \A s \in Slots : Writing(s, "aliases") /\ req[s].op = "write_aliases" => req[s].copy = AliasLines
TunnelFile ==
    "tunnels" \notin behind =>
        /\ Alone("tunnels")
        /\ (\A s \in Slots : ~Writing(s, "tunnels")) => tunnels_json = tunnel
        /\ \A s \in Slots : Writing(s, "tunnels") /\ req[s].op = "write_tunnels" => req[s].copy = tunnel
CertFile ==
    "certs" \notin behind =>
        /\ Alone("certs")
        /\ (\A s \in Slots : ~Writing(s, "certs")) => cert_files = [crt |-> cert, key |-> cert]
        /\ \A s \in Slots : Writing(s, "certs") => req[s].id = cert /\ (req[s].op = "write_key" => cert_files.crt = cert)

FileInv == FileTypes /\ AliasFile /\ TunnelFile /\ CertFile

-----------------------------------------------------------------------------
(* Aliases, tunnels and the certificate: the proof.                        *)

LEMMA FilesStart == Init => FileInv
<1> SUFFICES ASSUME Init PROVE FileInv  OBVIOUS
<1>1. ConfigInit /\ req = [s \in Slots |-> Idle]  BY DEF Init, RequestsInit
<1>2. FileTypes  BY <1>1 DEF ConfigInit, FileTypes, FileRequest
<1>3. \A s \in Slots : \A f : ~Writing(s, f)  BY <1>1 DEF Writing
<1>4. valias = AliasLines  BY <1>1 DEF ConfigInit, AliasLines
<1> QED  BY <1>1, <1>2, <1>3, <1>4 DEF FileInv, AliasFile, TunnelFile, CertFile, Alone, ConfigInit

LEMMA FileRequestKinds ==
    /\ \A r \in AliasRequest : r # Idle /\ r.file = "aliases" /\ r.op \in {"read_aliases", "write_aliases"}
    /\ \A r \in TunnelRequest : r # Idle /\ r.file = "tunnels" /\ r.op \in {"read_tunnels", "write_tunnels"}
    /\ \A r \in CertRequest : r # Idle /\ r.file = "certs" /\ r.op \in {"write_cert", "write_key"} /\ r.id \in Nat
    /\ \A r \in ProbeRequest : r # Idle /\ r.file = "-" /\ r.op = "probe" /\ r.id \in Tunnels /\ r.copy \in Nat
    /\ Idle.op = "idle"
BY DEF AliasRequest, TunnelRequest, CertRequest, ProbeRequest, Idle

\* What slot s takes up, against the file that it is about.
About(r, f) == r # Idle /\ r.file = f
Moves(s, r) ==
    /\ part = "files" /\ part' = part /\ s \in Slots /\ r \in FileRequest
    /\ req' = [req EXCEPT ![s] = r]

LEMMA FileRequestStep ==
    ASSUME FileInv, NEW s, NEW r, Moves(s, r)
    PROVE  /\ req' \in [Slots -> FileRequest] /\ req'[s] = r /\ \A t \in Slots \ {s} : req'[t] = req[t]
           /\ \A t \in Slots : \A f : Writing(t, f) <=> About(req[t], f)
           /\ \A t \in Slots : \A f : Writing(t, f)' <=> About(req'[t], f)
BY DEF FileInv, FileTypes, Moves, Writing, About

\* A step that is not about a file leaves it as current as it was.
LEMMA AliasFileFrame ==
    ASSUME FileInv, NEW s, NEW r, Moves(s, r), ~About(r, "aliases"), ~About(req[s], "aliases"), UNCHANGED aliasVars,
           "aliases" \in behind => "aliases" \in behind'
    PROVE  AliasFile'
<1>1. AliasLines' = AliasLines /\ valias' = valias  BY DEF AliasLines, aliasVars
<1>2. s \in Slots  BY DEF Moves
<1>3. \A t \in Slots : Writing(t, "aliases")' <=> Writing(t, "aliases")  BY <1>2, FileRequestStep
<1>4. \A t \in Slots : Writing(t, "aliases") => req'[t] = req[t]  BY <1>2, FileRequestStep
<1> QED  BY <1>1, <1>3, <1>4 DEF FileInv, AliasFile, Alone
LEMMA TunnelFileFrame ==
    ASSUME FileInv, NEW s, NEW r, Moves(s, r), ~About(r, "tunnels"), ~About(req[s], "tunnels"), UNCHANGED <<tunnel, tunnels_json>>,
           "tunnels" \in behind => "tunnels" \in behind'
    PROVE  TunnelFile'
BY FileRequestStep DEF FileInv, TunnelFile, Alone, Moves
LEMMA CertFileFrame ==
    ASSUME FileInv, NEW s, NEW r, Moves(s, r), ~About(r, "certs"), ~About(req[s], "certs"), UNCHANGED certVars,
           "certs" \in behind => "certs" \in behind'
    PROVE  CertFile'
BY FileRequestStep DEF FileInv, CertFile, Alone, certVars, Moves

\* A request that begins a change of file f: others about it put the file behind.
LEMMA ChangeBegins ==
    ASSUME FileInv, part = "files", NEW s \in Slots, NEW op, NEW f, NEW x,
           Change(s, op, f, x), [op |-> op, file |-> f, id |-> x, copy |-> <<>>] \in FileRequest
    PROVE  /\ Moves(s, [op |-> op, file |-> f, id |-> x, copy |-> <<>>])
           /\ req[s] = Idle /\ behind \subseteq behind' /\ behind' \subseteq behind \cup {f}
           /\ f \notin behind' => \A t \in Slots : ~Writing(t, f)
           /\ Writing(s, f)' /\ req'[s].op = op /\ req'[s].id = x
           /\ f \notin behind' => Alone(f)' /\ \A t \in Slots : Writing(t, f)' => t = s
<1> DEFINE r == [op |-> op, file |-> f, id |-> x, copy |-> <<>>]
<1>1. /\ req[s] = Idle /\ req' = [req EXCEPT ![s] = r] /\ part' = part
      /\ behind' = behind \cup {g \in {f} : \E t \in Slots : req[t] # Idle /\ req[t].file = g}
  BY DEF Change, Begin
<1>2. Moves(s, r)  BY <1>1 DEF Moves
<1>3. f \notin behind' => \A t \in Slots : ~Writing(t, f)  BY <1>1 DEF Writing
<1>4. r # Idle  BY DEF Idle
<1>5. /\ req'[s] = r /\ \A t \in Slots \ {s} : req'[t] = req[t]
      /\ \A t \in Slots : \A g : Writing(t, g) <=> About(req[t], g)
      /\ \A t \in Slots : \A g : Writing(t, g)' <=> About(req'[t], g)
  BY <1>2, FileRequestStep
<1>6. Writing(s, f)'  BY <1>4, <1>5 DEF About
<1>7. f \notin behind' => \A t \in Slots : Writing(t, f)' => t = s  BY <1>3, <1>5
<1> QED  BY <1>1, <1>2, <1>3, <1>5, <1>6, <1>7 DEF Alone

LEMMA AliasChangesKeep ==
    ASSUME FileInv, part = "files", NEW s \in Slots,
           \E a \in Aliases : create_alias(s, a) \/ delete_alias(s, a) \/ \E on \in BOOLEAN : update_alias(s, a, on)
    PROVE  FileInv'
<1>1. PICK a \in Aliases : create_alias(s, a) \/ delete_alias(s, a) \/ \E on \in BOOLEAN : update_alias(s, a, on)  OBVIOUS
<1> DEFINE r == [op |-> "read_aliases", file |-> "aliases", id |-> a, copy |-> <<>>]
<1>2. Change(s, "read_aliases", "aliases", a) /\ UNCHANGED <<valias, tunnelVars, certVars>>
  BY <1>1 DEF create_alias, delete_alias, update_alias
<1>3. r \in FileRequest  BY DEF FileRequest, AliasRequest
<1>4. /\ Moves(s, r) /\ req[s] = Idle /\ behind \subseteq behind' /\ behind' \subseteq behind \cup {"aliases"}
      /\ req'[s].op = "read_aliases"
      /\ "aliases" \notin behind' => Alone("aliases")' /\ \A t \in Slots : Writing(t, "aliases")' => t = s
      /\ Writing(s, "aliases")'
  BY <1>2, <1>3, ChangeBegins
<1>5. alias' \in [Aliases -> Nat] /\ enabled' \in [Aliases -> BOOLEAN]
  <2>1. NewRevision(alias[a]) \in Nat  BY DEF NewRevision, FileInv, FileTypes
  <2>2. alias \in [Aliases -> Nat] /\ enabled \in [Aliases -> BOOLEAN]  BY DEF FileInv, FileTypes
  <2>3. /\ \E n \in Nat : alias' = [alias EXCEPT ![a] = n]
        /\ \E on \in BOOLEAN : enabled' = [enabled EXCEPT ![a] = on]
    BY <1>1, <2>1 DEF create_alias, delete_alias, update_alias
  <2> QED  BY <2>2, <2>3
<1>6. FileTypes'  BY <1>2, <1>4, <1>5, FileRequestStep DEF FileInv, FileTypes, tunnelVars, certVars, Moves
<1>7. AliasFile'  BY <1>4 DEF AliasFile
<1>8. ~About(r, "tunnels") /\ ~About(r, "certs") /\ ~About(Idle, "tunnels") /\ ~About(Idle, "certs")  BY DEF About
<1> HIDE DEF r
<1>9. TunnelFile'  BY <1>2, <1>4, <1>8, TunnelFileFrame DEF tunnelVars
<1>10. CertFile'  BY <1>2, <1>4, <1>8, CertFileFrame
<1> QED  BY <1>6, <1>7, <1>9, <1>10 DEF FileInv

LEMMA TunnelChangesKeep ==
    ASSUME FileInv, part = "files", NEW s \in Slots,
           \/ \E t \in Tunnels : create_tunnel(s, t) \/ update_tunnel(s, t) \/ delete_tunnel(s, t)
           \/ reload_tunnels_config(s)
    PROVE  FileInv'
<1>1. PICK x \in Tunnels \cup {"-"} :
          /\ Change(s, "read_tunnels", "tunnels", x) /\ UNCHANGED <<aliasVars, tunnels_json, certVars>>
          /\ tunnel' = tunnel \/ (x \in Tunnels /\ \E n \in Nat : tunnel' = [tunnel EXCEPT ![x] = n])
  <2>1. ASSUME NEW t \in Tunnels, create_tunnel(s, t) \/ update_tunnel(s, t) \/ delete_tunnel(s, t)
        PROVE  /\ Change(s, "read_tunnels", "tunnels", t) /\ UNCHANGED <<aliasVars, tunnels_json, certVars>>
               /\ \E n \in Nat : tunnel' = [tunnel EXCEPT ![t] = n]
    <3>1. NewRevision(tunnel[t]) \in Nat  BY DEF NewRevision, FileInv, FileTypes
    <3> QED  BY <2>1, <3>1 DEF create_tunnel, update_tunnel, delete_tunnel
  <2>2. CASE reload_tunnels_config(s)  BY <2>2 DEF reload_tunnels_config, tunnelVars
  <2> QED  BY <2>1, <2>2
<1> DEFINE r == [op |-> "read_tunnels", file |-> "tunnels", id |-> x, copy |-> <<>>]
<1>3. r \in FileRequest  BY DEF FileRequest, TunnelRequest
<1>4. /\ Moves(s, r) /\ req[s] = Idle /\ behind \subseteq behind' /\ behind' \subseteq behind \cup {"tunnels"}
      /\ req'[s].op = "read_tunnels"
      /\ "tunnels" \notin behind' => Alone("tunnels")' /\ \A t \in Slots : Writing(t, "tunnels")' => t = s
      /\ Writing(s, "tunnels")'
  BY <1>1, <1>3, ChangeBegins
<1>5. tunnel' \in [Tunnels -> Nat]
  <2>1. tunnel \in [Tunnels -> Nat]  BY DEF FileInv, FileTypes
  <2> QED  BY <1>1, <2>1
<1>6. FileTypes'  BY <1>1, <1>4, <1>5, FileRequestStep DEF FileInv, FileTypes, aliasVars, certVars, Moves
<1>7. TunnelFile'  BY <1>4 DEF TunnelFile
<1>8. ~About(r, "aliases") /\ ~About(r, "certs") /\ ~About(Idle, "aliases") /\ ~About(Idle, "certs")  BY DEF About
<1> HIDE DEF r
<1>9. AliasFile'  BY <1>1, <1>4, <1>8, AliasFileFrame
<1>10. CertFile'  BY <1>1, <1>4, <1>8, CertFileFrame
<1> QED  BY <1>6, <1>7, <1>9, <1>10 DEF FileInv

LEMMA AliasStepsKeep ==
    ASSUME FileInv, part = "files", NEW s \in Slots, ReadAliases(s) \/ rebuild_postfix_virtual_aliases(s)
    PROVE  FileInv'
<1>1. req[s] \in AliasRequest
  BY FileRequestKinds DEF ReadAliases, rebuild_postfix_virtual_aliases, At, FileInv, FileTypes, FileRequest
<1>2. Writing(s, "aliases")  BY <1>1, FileRequestKinds DEF Writing
<1>3. AliasLines \in [Aliases -> Nat]  BY DEF AliasLines, FileInv, FileTypes
<1>4. PICK r \in {Idle} \cup AliasRequest :
          /\ Moves(s, r) /\ UNCHANGED <<alias, enabled, tunnelVars, certVars, behind>>
          /\ \/ r # Idle /\ r.copy = AliasLines /\ valias' = valias
             \/ r = Idle /\ req[s].op = "write_aliases" /\ valias' = req[s].copy
  <2>1. CASE ReadAliases(s)
    <3> DEFINE r == [req[s] EXCEPT !.op = "write_aliases", !.copy = AliasLines]
    <3>1. r \in AliasRequest /\ r.copy = AliasLines  BY <1>1, <1>3 DEF AliasRequest
    <3>2. r # Idle /\ r \in FileRequest  BY <3>1, FileRequestKinds DEF FileRequest
    <3> QED  BY <2>1, <3>1, <3>2 DEF ReadAliases, Goto, Moves, configVars, tunnelVars, certVars
  <2>2. CASE rebuild_postfix_virtual_aliases(s)
    BY <2>2 DEF rebuild_postfix_virtual_aliases, End, Goto, Moves, FileRequest, At
  <2> QED  BY <2>1, <2>2
<1>5. ~About(r, "tunnels") /\ ~About(r, "certs") /\ ~About(req[s], "tunnels") /\ ~About(req[s], "certs")
  BY <1>1, <1>4, FileRequestKinds DEF About
<1>6. /\ req' \in [Slots -> FileRequest] /\ req'[s] = r /\ \A t \in Slots \ {s} : req'[t] = req[t]
      /\ \A t \in Slots : \A f : Writing(t, f) <=> About(req[t], f)
      /\ \A t \in Slots : \A f : Writing(t, f)' <=> About(req'[t], f)
  BY <1>4, FileRequestStep
<1>7. FileTypes'  BY <1>4, <1>6 DEF FileInv, FileTypes, tunnelVars, certVars, Moves
<1>8. AliasLines' = AliasLines  BY <1>4 DEF AliasLines
<1>9. AliasFile'
  <2> SUFFICES ASSUME "aliases" \notin behind'
               PROVE  /\ Alone("aliases")'
                      /\ (\A t \in Slots : ~Writing(t, "aliases")') => valias' = AliasLines
                      /\ \A t \in Slots : Writing(t, "aliases")' /\ req'[t].op = "write_aliases" => req'[t].copy = AliasLines
    BY <1>8 DEF AliasFile
  <2>1. \A t \in Slots : Writing(t, "aliases") => t = s  BY <1>2, <1>4 DEF FileInv, AliasFile, Alone
  <2>2. \A t \in Slots : Writing(t, "aliases")' => t = s  BY <2>1, <1>6
  <2>3. CASE r # Idle
    <3>1. Writing(s, "aliases")'  BY <2>3, <1>4, <1>6, FileRequestKinds DEF About
    <3> QED  BY <2>2, <2>3, <3>1, <1>4, <1>6 DEF Alone
  <2>4. CASE r = Idle
    <3>1. valias' = AliasLines  BY <2>4, <1>2, <1>4, FileRequestKinds DEF FileInv, AliasFile
    <3>2. ~Writing(s, "aliases")'  BY <2>4, <1>6 DEF About
    <3> QED  BY <2>2, <3>1, <3>2 DEF Alone
  <2> QED  BY <2>3, <2>4
<1>10. TunnelFile' /\ CertFile'  BY <1>4, <1>5, TunnelFileFrame, CertFileFrame DEF tunnelVars, Moves, FileRequest
<1> QED  BY <1>7, <1>9, <1>10 DEF FileInv

LEMMA TunnelStepsKeep ==
    ASSUME FileInv, part = "files", NEW s \in Slots,
           build_tunnels_payload(s) \/ \E ok \in BOOLEAN : write_tunnels_json(s, ok)
    PROVE  FileInv'
<1>1. req[s] \in TunnelRequest
  BY FileRequestKinds DEF build_tunnels_payload, write_tunnels_json, At, FileInv, FileTypes, FileRequest
<1>2. Writing(s, "tunnels")  BY <1>1, FileRequestKinds DEF Writing
<1>3. PICK r \in {Idle} \cup TunnelRequest :
          /\ Moves(s, r) /\ UNCHANGED <<aliasVars, tunnel, certVars>>
          /\ behind \ {"tunnels"} \subseteq behind'
          /\ \/ r # Idle /\ r.copy = tunnel /\ behind' = behind
             \/ /\ r = Idle /\ req[s].op = "write_tunnels"
                /\ "tunnels" \notin behind' =>
                      /\ \A t \in Slots \ {s} : ~(req[t] # Idle /\ req[t].file = "tunnels")
                      /\ tunnels_json' = req[s].copy
                      /\ req[s].copy = tunnel \/ "tunnels" \notin behind
  <2>1. CASE build_tunnels_payload(s)
    <3> DEFINE r == [req[s] EXCEPT !.op = "write_tunnels", !.copy = tunnel]
    <3>1. r \in TunnelRequest /\ r.copy = tunnel  BY <1>1 DEF TunnelRequest, FileInv, FileTypes
    <3>2. r # Idle /\ r \in FileRequest  BY <3>1, FileRequestKinds DEF FileRequest
    <3> QED  BY <2>1, <3>1, <3>2 DEF build_tunnels_payload, Goto, Moves, configVars, certVars, aliasVars
  <2>2. CASE \E ok \in BOOLEAN : write_tunnels_json(s, ok)
    <3>1. PICK ok \in BOOLEAN : write_tunnels_json(s, ok)  BY <2>2
    <3> DEFINE clash == \E t \in Slots \ {s} : req[t] # Idle /\ req[t].file = "tunnels"
    <3>2. /\ At(s, "write_tunnels") /\ End(s) /\ tunnels_json' = IF ok THEN req[s].copy ELSE tunnels_json
          /\ behind' = IF clash \/ ~ok THEN behind \cup {"tunnels"}
                       ELSE IF req[s].copy = tunnel THEN behind \ {"tunnels"} ELSE behind
          /\ UNCHANGED <<aliasVars, tunnel, check, certVars>>
      BY <3>1 DEF write_tunnels_json
    <3>3. "tunnels" \notin behind' => ~clash /\ ok /\ (req[s].copy = tunnel \/ "tunnels" \notin behind)
      BY <3>2
    <3>4. Moves(s, Idle)  BY <3>2 DEF End, Goto, Moves, FileRequest
    <3>5. behind \ {"tunnels"} \subseteq behind'  BY <3>2
    <3> QED  BY <3>2, <3>3, <3>4, <3>5 DEF At
  <2> QED  BY <2>1, <2>2
<1>4. ~About(r, "aliases") /\ ~About(r, "certs") /\ ~About(req[s], "aliases") /\ ~About(req[s], "certs")
  BY <1>1, <1>3, FileRequestKinds DEF About
<1>5. /\ req' \in [Slots -> FileRequest] /\ req'[s] = r /\ \A t \in Slots \ {s} : req'[t] = req[t]
      /\ \A t \in Slots : \A f : Writing(t, f) <=> About(req[t], f)
      /\ \A t \in Slots : \A f : Writing(t, f)' <=> About(req'[t], f)
  BY <1>3, FileRequestStep
<1>6. FileTypes'  BY <1>3, <1>5 DEF FileInv, FileTypes, aliasVars, certVars, Moves
<1>7. TunnelFile'
  <2> SUFFICES ASSUME "tunnels" \notin behind'
               PROVE  /\ Alone("tunnels")'
                      /\ (\A t \in Slots : ~Writing(t, "tunnels")') => tunnels_json' = tunnel
                      /\ \A t \in Slots : Writing(t, "tunnels")' /\ req'[t].op = "write_tunnels" => req'[t].copy = tunnel
    BY <1>3 DEF TunnelFile
  <2>1. CASE r # Idle
    <3>1. \A t \in Slots : Writing(t, "tunnels") => t = s  BY <1>2, <1>3, <2>1 DEF FileInv, TunnelFile, Alone
    <3>2. Writing(s, "tunnels")'  BY <2>1, <1>3, <1>5, FileRequestKinds DEF About
    <3> QED  BY <2>1, <3>1, <3>2, <1>3, <1>5 DEF Alone
  <2>2. CASE r = Idle
    <3>1. req[s].copy = tunnel  BY <2>2, <1>2, <1>3, FileRequestKinds DEF FileInv, TunnelFile
    <3>2. \A t \in Slots : ~Writing(t, "tunnels")'  BY <2>2, <1>3, <1>5 DEF About
    <3> QED  BY <2>2, <3>1, <3>2, <1>3, FileRequestKinds DEF Alone
  <2> QED  BY <2>1, <2>2
<1>8. AliasFile' /\ CertFile'  BY <1>3, <1>4, AliasFileFrame, CertFileFrame DEF Moves, FileRequest
<1> QED  BY <1>6, <1>7, <1>8 DEF FileInv

LEMMA ProbeStepsKeep ==
    ASSUME FileInv, part = "files", NEW s \in Slots, CommitHealth(s) \/ \E t \in Tunnels : health_check(s, t)
    PROVE  FileInv'
<1>1. PICK r \in {Idle} \cup ProbeRequest :
          /\ Moves(s, r) /\ UNCHANGED <<aliasVars, tunnel, tunnels_json, certVars, behind>>
          /\ req[s] \in {Idle} \cup ProbeRequest
  <2>1. CASE CommitHealth(s)
    <3>1. req[s] \in ProbeRequest  BY <2>1, FileRequestKinds DEF CommitHealth, At, FileInv, FileTypes, FileRequest
    <3> QED  BY <2>1, <3>1 DEF CommitHealth, End, Goto, Moves, FileRequest
  <2>2. ASSUME NEW t \in Tunnels, health_check(s, t)
        PROVE  \E r \in {Idle} \cup ProbeRequest :
                  /\ Moves(s, r) /\ UNCHANGED <<aliasVars, tunnel, tunnels_json, certVars, behind>>
                  /\ req[s] \in {Idle} \cup ProbeRequest
    <3> DEFINE r == [op |-> "probe", file |-> "-", id |-> t, copy |-> tunnel[t]]
    <3>1. r \in ProbeRequest  BY DEF ProbeRequest, FileInv, FileTypes
    <3>2. Moves(s, r) /\ req[s] = Idle /\ UNCHANGED configVars  BY <2>2, <3>1 DEF health_check, Begin, Moves, FileRequest
    <3> HIDE DEF r
    <3> QED  BY <3>1, <3>2 DEF configVars, aliasVars, certVars
  <2> QED  BY <2>1, <2>2
<1>2. \A f \in {"aliases", "tunnels", "certs"} : ~About(r, f) /\ ~About(req[s], f)
  BY <1>1, FileRequestKinds DEF About
<1>3. FileTypes'  BY <1>1, FileRequestStep DEF FileInv, FileTypes, aliasVars, certVars, Moves
<1>4. AliasFile' /\ TunnelFile' /\ CertFile'  BY <1>1, <1>2, AliasFileFrame, TunnelFileFrame, CertFileFrame
<1> QED  BY <1>3, <1>4 DEF FileInv

LEMMA CertStepsKeep ==
    ASSUME FileInv, part = "files", NEW s \in Slots,
           WriteCert(s) \/ write_certs_to_disk(s) \/ \E c, k \in 1..MaxRevision : upload_tls_certificate(s, c, k)
    PROVE  FileInv'
<1>1. CASE \E c, k \in 1..MaxRevision : upload_tls_certificate(s, c, k)
  <2>1. PICK c \in Nat : cert' = c /\ Change(s, "write_cert", "certs", c) /\ UNCHANGED <<aliasVars, tunnelVars, cert_files>>
    BY <1>1, ConfigAssumption DEF upload_tls_certificate
  <2> DEFINE r == [op |-> "write_cert", file |-> "certs", id |-> c, copy |-> <<>>]
  <2>2. r \in FileRequest  BY DEF FileRequest, CertRequest
  <2>3. /\ Moves(s, r) /\ req[s] = Idle /\ behind \subseteq behind' /\ behind' \subseteq behind \cup {"certs"}
        /\ req'[s].op = "write_cert" /\ req'[s].id = c /\ Writing(s, "certs")'
        /\ "certs" \notin behind' => Alone("certs")' /\ \A t \in Slots : Writing(t, "certs")' => t = s
    BY <2>1, <2>2, ChangeBegins
  <2>4. FileTypes'  BY <2>1, <2>3, FileRequestStep DEF FileInv, FileTypes, aliasVars, tunnelVars, Moves
  <2>5. CertFile'  BY <2>1, <2>3 DEF CertFile
  <2>6. ~About(r, "aliases") /\ ~About(r, "tunnels") /\ ~About(Idle, "aliases") /\ ~About(Idle, "tunnels")  BY DEF About
  <2> HIDE DEF r
  <2>7. AliasFile' /\ TunnelFile'  BY <2>1, <2>3, <2>6, AliasFileFrame, TunnelFileFrame DEF tunnelVars
  <2> QED  BY <2>4, <2>5, <2>7 DEF FileInv
<1>2. CASE WriteCert(s) \/ write_certs_to_disk(s)
  <2>1. req[s] \in CertRequest
    BY <1>2, FileRequestKinds DEF WriteCert, write_certs_to_disk, At, FileInv, FileTypes, FileRequest
  <2>2. Writing(s, "certs") /\ req[s].id \in Nat  BY <2>1, FileRequestKinds DEF Writing
  <2>3. cert_files \in [crt : Nat, key : Nat] /\ cert \in Nat  BY DEF FileInv, FileTypes
  <2>4. PICK r \in {Idle} \cup CertRequest :
            /\ Moves(s, r) /\ UNCHANGED <<aliasVars, tunnelVars, cert, behind>>
            /\ \/ r # Idle /\ r.id = req[s].id /\ cert_files' = [cert_files EXCEPT !.crt = req[s].id]
               \/ r = Idle /\ req[s].op = "write_key" /\ cert_files' = [cert_files EXCEPT !.key = req[s].id]
    <3>1. CASE WriteCert(s)
      <4> DEFINE r == [req[s] EXCEPT !.op = "write_key"]
      <4>1. r \in CertRequest /\ r.id = req[s].id  BY <2>1 DEF CertRequest
      <4>2. r # Idle /\ r \in FileRequest  BY <4>1, FileRequestKinds DEF FileRequest
      <4> QED  BY <3>1, <4>1, <4>2 DEF WriteCert, Step, Goto, Moves
    <3>2. CASE write_certs_to_disk(s)  BY <3>2 DEF write_certs_to_disk, End, Goto, Moves, FileRequest, At
    <3> QED  BY <1>2, <3>1, <3>2
  <2>5. ~About(r, "aliases") /\ ~About(r, "tunnels") /\ ~About(req[s], "aliases") /\ ~About(req[s], "tunnels")
    BY <2>1, <2>4, FileRequestKinds DEF About
  <2>6. /\ req' \in [Slots -> FileRequest] /\ req'[s] = r /\ \A t \in Slots \ {s} : req'[t] = req[t]
        /\ \A t \in Slots : \A f : Writing(t, f) <=> About(req[t], f)
        /\ \A t \in Slots : \A f : Writing(t, f)' <=> About(req'[t], f)
    BY <2>4, FileRequestStep
  <2>7. cert_files' \in [crt : Nat, key : Nat]  BY <2>2, <2>3, <2>4
  <2>8. FileTypes'  BY <2>4, <2>6, <2>7 DEF FileInv, FileTypes, aliasVars, tunnelVars, Moves
  <2>9. CertFile'
    <3> SUFFICES ASSUME "certs" \notin behind' PROVE CertFile'  BY DEF CertFile
    <3>1. /\ \A t \in Slots : Writing(t, "certs") => t = s
          /\ req[s].id = cert /\ (req[s].op = "write_key" => cert_files.crt = cert)
      BY <2>2, <2>4 DEF FileInv, CertFile, Alone
    <3>2. \A t \in Slots : Writing(t, "certs")' => t = s  BY <3>1, <2>6
    <3>3. Alone("certs")' /\ cert' = cert  BY <3>2, <2>4 DEF Alone
    <3>4. CASE r # Idle
      <4>1. cert_files'.crt = cert /\ Writing(s, "certs")'  BY <3>1, <3>4, <2>3, <2>4, <2>6, FileRequestKinds DEF About
      <4>2. req'[s].id = cert  BY <3>1, <3>4, <2>4, <2>6
      <4> QED  BY <3>2, <3>3, <4>1, <4>2 DEF CertFile
    <3>5. CASE r = Idle
      <4>1. cert_files' = [crt |-> cert, key |-> cert]  BY <3>1, <3>5, <2>3, <2>4, FileRequestKinds
      <4>2. \A t \in Slots : ~Writing(t, "certs")'  BY <3>2, <3>5, <2>6 DEF About
      <4> QED  BY <3>3, <4>1, <4>2 DEF CertFile
    <3> QED  BY <3>4, <3>5
  <2>10. AliasFile' /\ TunnelFile'  BY <2>4, <2>5, AliasFileFrame, TunnelFileFrame DEF tunnelVars, Moves, FileRequest
  <2> QED  BY <2>8, <2>9, <2>10 DEF FileInv
<1> QED  BY <1>1, <1>2

\* A restart drops the requests; their files are behind unless the start writes them.
LEMMA FilesRestartKeeps == FileInv /\ Restart => FileInv'
<1> SUFFICES ASSUME FileInv, Restart PROVE FileInv'  OBVIOUS
<1> DEFINE lost == {req[s].file : s \in {s \in Slots : part = "files" /\ req[s] # Idle}}
<1>1. /\ req' = [s \in Slots |-> Idle] /\ part' = part /\ UNCHANGED <<alias, valias, enabled, tunnel, cert>>
      /\ cert_files' = [crt |-> cert, key |-> cert] /\ (tunnels_json' = tunnel \/ "tunnels" \in behind')
      /\ \A f \in (behind \cup lost) \ {"tunnels", "certs"} : f \in behind'
  BY DEF Restart, RestartConfig, restore_custom_certs, aliasVars
<1>2. FileTypes'  BY <1>1 DEF FileInv, FileTypes, FileRequest
<1>3. \A s \in Slots : \A f : ~Writing(s, f)'  BY <1>1 DEF Writing
<1>4. \A s \in Slots : Writing(s, "aliases") => "aliases" \in lost  BY DEF Writing
<1>5. AliasLines' = AliasLines  BY <1>1 DEF AliasLines
<1>6. AliasFile'  BY <1>1, <1>3, <1>4, <1>5 DEF FileInv, AliasFile, Alone
<1>7. TunnelFile' /\ CertFile'  BY <1>1, <1>3 DEF TunnelFile, CertFile, Alone
<1> QED  BY <1>2, <1>6, <1>7 DEF FileInv

LEMMA FilesElsewhereKeep ==
    ASSUME FileInv, part' = part, UNCHANGED configVars, part # "files" \/ UNCHANGED req
    PROVE  FileInv'
<1>1. FileTypes'  BY DEF FileInv, FileTypes, configVars
<1>2. \A s \in Slots : \A f : Writing(s, f)' <=> Writing(s, f)  BY DEF Writing
<1>3. \A s \in Slots : \A f : Writing(s, f) => req' = req  BY DEF Writing
<1>4. AliasLines' = AliasLines  BY DEF AliasLines, configVars
<1>5. AliasFile'  BY <1>2, <1>3, <1>4 DEF FileInv, AliasFile, Alone, configVars
<1>6. TunnelFile'  BY <1>2, <1>3 DEF FileInv, TunnelFile, Alone, configVars
<1>7. CertFile'  BY <1>2, <1>3 DEF FileInv, CertFile, Alone, configVars
<1> QED  BY <1>1, <1>5, <1>6, <1>7 DEF FileInv

LEMMA FilesNext == FileInv /\ [Next]_vars => FileInv'
<1> SUFFICES ASSUME FileInv, [Next]_vars PROVE FileInv'  OBVIOUS
<1>1. CASE Only("files") /\ ConfigStep
  <2>1. part = "files"  BY <1>1 DEF Only
  <2>2. PICK s \in Slots :
          \/ \E a \in Aliases : create_alias(s, a) \/ delete_alias(s, a) \/ \E on \in BOOLEAN : update_alias(s, a, on)
          \/ ReadAliases(s) \/ rebuild_postfix_virtual_aliases(s)
          \/ \E t \in Tunnels : create_tunnel(s, t) \/ update_tunnel(s, t) \/ delete_tunnel(s, t) \/ health_check(s, t)
          \/ reload_tunnels_config(s) \/ build_tunnels_payload(s) \/ CommitHealth(s)
          \/ \E ok \in BOOLEAN : write_tunnels_json(s, ok)
          \/ \E c, k \in 1..MaxRevision : upload_tls_certificate(s, c, k)
          \/ WriteCert(s) \/ write_certs_to_disk(s)
    BY <1>1 DEF ConfigStep
  <2> QED  BY <2>1, <2>2, AliasChangesKeep, AliasStepsKeep, TunnelChangesKeep, TunnelStepsKeep, ProbeStepsKeep, CertStepsKeep
<1>2. CASE Restart  BY <1>2, FilesRestartKeeps
<1>3. CASE ~(Only("files") /\ ConfigStep) /\ Next /\ ~Restart
  <2>1. part # "files" /\ UNCHANGED configVars  BY <1>3 DEF Next, Only
  <2> QED  BY <2>1, <1>3, SamePart, FilesElsewhereKeep
<1>4. CASE UNCHANGED vars
  <2>1. part' = part /\ UNCHANGED req /\ UNCHANGED configVars  BY <1>4 DEF vars, requestVars
  <2> QED  BY <2>1, FilesElsewhereKeep
<1> QED  BY <1>1, <1>2, <1>3, <1>4 DEF Next

LEMMA FilesRendered == FileInv => RenderedAtRest
<1> SUFFICES ASSUME FileInv PROVE RenderedAtRest  OBVIOUS
<1>1. \A f : Pending(f) <=> \E s \in Slots : Writing(s, f)  BY DEF Pending, Writing
<1>2. "aliases" \notin behind /\ ~Pending("aliases") => valias = AliasLines  BY <1>1 DEF FileInv, AliasFile
<1>3. "tunnels" \notin behind /\ ~Pending("tunnels") => tunnels_json = tunnel  BY <1>1 DEF FileInv, TunnelFile
<1>4. "certs" \notin behind /\ ~Pending("certs") => cert_files = [crt |-> cert, key |-> cert]
  BY <1>1 DEF FileInv, CertFile
<1>5. \A t \in Present(tunnel) : effective_tunnel_status[t].loaded <=> tunnels_json[t] # 0
  BY DEF effective_tunnel_status
<1> QED  BY <1>2, <1>3, <1>4, <1>5 DEF RenderedAtRest

-----------------------------------------------------------------------------
(* Mailboxes and domains: the requests, and the invariant of the domains.  *)

RowSet == [exists : BOOLEAN, active : BOOLEAN, owner : Users \cup {Nobody}, catchall : BOOLEAN]
MapSet == [boxes : SUBSET Boxes, domains : SUBSET Domains]
CreateOps == {"create", "provision", "undo"}
DeleteOps == {"delete", "unlist", "relist"}
MapOps == {"render", "rendered", "reload"}
DomainOps == {"add_domain", "lock", "opendkim", "vdomains"}
MailForm ==
    [op : CreateOps \cup DeleteOps \cup MapOps \cup DomainOps, user : Users, box : Boxes, seen : RowSet \cup MapSet,
     lines : SUBSET (Boxes \cup Domains), name : Domains \cup {"-", "settings"}]

\* What a handler knows at each of its steps.
Fits(r) ==
    /\ r.op \in CreateOps \cup DeleteOps => r.name = "-"
    /\ r.op \in CreateOps => r.seen \in RowSet
    /\ r.op = "relist" => r.lines \in SUBSET Boxes
    /\ r.op = "rendered" => r.seen \in MapSet
    /\ r.op \in DomainOps => r.name \in Domains
    /\ r.op \in {"opendkim", "vdomains"} \cup MapOps /\ r.name \in Domains => r.lines \in SUBSET Domains
MailRequest == {Idle} \cup {r \in MailForm : Fits(r)}

MailTypes ==
    /\ Boxes # {} /\ production \in BOOLEAN /\ row \in [Boxes -> RowSet]
    /\ userdb \in SUBSET Boxes /\ vmap \in SUBSET Boxes /\ torn \in SUBSET Boxes
    /\ domain \in SUBSET Domains /\ tables \in [dkim : SUBSET Domains, virtual : SUBSET Domains]
    /\ part = "mailboxes" => req \in [Slots -> MailRequest]

\* A change of the domains that waits for the lock, or has it.
Waits(r) == r.op = "lock"
Works(r) == r.op \in {"opendkim", "vdomains"} \cup MapOps /\ r.name \in Domains
Waiting(s) == part = "mailboxes" /\ Waits(req[s])
Working(s) == part = "mailboxes" /\ Works(req[s])

\* The lock is held by the one that works, and the tables hold what it has read so far.
LockHeld ==
    /\ lock # Free => lock \in Slots /\ Working(lock)
    /\ \A s \in Slots : Working(s) => lock = s
    /\ \A s \in Slots : Working(s) =>
          /\ req[s].op # "opendkim" => tables.dkim = req[s].lines
          /\ req[s].op \in MapOps => tables.virtual = req[s].lines

\* The last change is still waiting, or read the rows as they are, or is done.
LastChange ==
    \/ cut
    \/ \E s \in Slots : Waiting(s)
    \/ \E s \in Slots : Working(s) /\ req[s].lines = domain
    \/ (\A s \in Slots : ~Working(s)) /\ tables = [dkim |-> domain, virtual |-> domain] /\ loaded = tables

DomainInv == MailTypes /\ LockHeld /\ LastChange

-----------------------------------------------------------------------------
(* Domains: the proof.                                                     *)

LEMMA RowsTyped ==
    /\ NoRow \in RowSet /\ \A u \in Users \cup {Nobody}, c \in BOOLEAN : Row(u, c) \in RowSet
    /\ NoRow.exists = FALSE /\ NoRow.active = FALSE /\ NoRow.owner = Nobody /\ NoRow.catchall = FALSE
    /\ \A u, c : /\ Row(u, c).exists = TRUE /\ Row(u, c).active = TRUE
                 /\ Row(u, c).owner = u /\ Row(u, c).catchall = c
BY DEF NoRow, Row, RowSet

LEMMA DomainsStart == Init => DomainInv
<1> SUFFICES ASSUME Init PROVE DomainInv  OBVIOUS
<1>1. MailboxesInit /\ req = [s \in Slots |-> Idle]  BY DEF Init, RequestsInit
<1>2. PICK b \in Boxes, u \in {Admin, Nobody} :
          /\ row = [x \in Boxes |-> IF x = b THEN Row(u, FALSE) ELSE NoRow]
          /\ maildir = {b} /\ userdb = {b} /\ vmap = {b}
  BY <1>1 DEF MailboxesInit
<1>3. row \in [Boxes -> RowSet]  BY <1>2, RowsTyped, MailboxesAssumption
<1>4. (CHOOSE d \in Domains : TRUE) \in Domains  BY MailboxesAssumption
<1>5. domain \in SUBSET Domains  BY <1>1, <1>4 DEF MailboxesInit
<1>6. MailTypes  BY <1>1, <1>2, <1>3, <1>5 DEF MailboxesInit, MailTypes, MailRequest
<1>7. \A s \in Slots : ~Working(s)  BY <1>1 DEF Working, Works, Idle, MapOps
<1> QED  BY <1>1, <1>6, <1>7 DEF DomainInv, LockHeld, LastChange, MailboxesInit

\* A step of the mailbox interface replaces one request.
Handles(s, r) ==
    /\ part = "mailboxes" /\ part' = part /\ s \in Slots /\ r \in MailRequest
    /\ req' = [req EXCEPT ![s] = r]

LEMMA MailRequestStep ==
    ASSUME MailTypes, NEW s, NEW r, Handles(s, r)
    PROVE  /\ req' \in [Slots -> MailRequest] /\ req'[s] = r /\ \A t \in Slots \ {s} : req'[t] = req[t]
           /\ \A t \in Slots : /\ Waiting(t) <=> Waits(req[t])
                               /\ Working(t) <=> Works(req[t])
                               /\ Waiting(t)' <=> Waits(req'[t])
                               /\ Working(t)' <=> Works(req'[t])
BY DEF MailTypes, Handles, Waiting, Working, Waits, Works

\* Steps of requests that neither wait nor work, of those that end so, and of those that
\* begin to wait.
LEMMA DomainFrame ==
    ASSUME DomainInv, MailTypes', NEW s, NEW r, Handles(s, r), ~Works(r), ~Works(req[s]), Waits(req[s]) => Waits(r),
           UNCHANGED <<tables, loaded, lock, cut>>, domain' = domain \/ Waits(r)
    PROVE  DomainInv'
<1>1. s \in Slots /\ MailTypes  BY DEF Handles, DomainInv
<1>2. \A t \in Slots : Working(t)' <=> Working(t)  BY <1>1, MailRequestStep
<1>3. \A t \in Slots : Working(t) => req'[t] = req[t]  BY <1>1, MailRequestStep
<1>4. \A t \in Slots : Waiting(t) => Waiting(t)'  BY <1>1, MailRequestStep
<1>5. Waits(r) => \E t \in Slots : Waiting(t)'  BY <1>1, MailRequestStep
<1>6. LockHeld'  BY <1>2, <1>3 DEF DomainInv, LockHeld
<1>7. LastChange'
  <2>1. CASE Waits(r)  BY <2>1, <1>5 DEF LastChange
  <2>2. CASE domain' = domain  BY <2>2, <1>2, <1>3, <1>4 DEF DomainInv, LastChange
  <2> QED  BY <2>1, <2>2
<1> QED  BY <1>6, <1>7 DEF DomainInv

LEMMA MailOps ==
    /\ Idle.op = "idle" /\ Idle \in MailRequest /\ ~Works(Idle) /\ ~Waits(Idle)
    /\ \A r \in MailRequest : r.op # "idle" => r \in MailForm /\ Fits(r)
    /\ \A r \in MailForm : Fits(r) => r \in MailRequest /\ r # Idle
    /\ "-" \notin Domains /\ "settings" \notin Domains
BY MailboxesAssumption DEF Idle, MailRequest, MailForm, CreateOps, DeleteOps, MapOps, DomainOps, Works, Waits

AllOps == CreateOps \cup DeleteOps \cup MapOps \cup DomainOps

LEMMA Reopened ==
    ASSUME NEW r \in MailForm, NEW op \in AllOps
    PROVE  LET q == [r EXCEPT !.op = op]
           IN  /\ q \in MailForm /\ q.op = op /\ q.user = r.user /\ q.box = r.box /\ q.seen = r.seen
               /\ q.lines = r.lines /\ q.name = r.name
BY DEF MailForm, AllOps

LEMMA Asked ==
    ASSUME NEW op \in AllOps, NEW u \in Users, NEW b \in Boxes, MailTypes
    PROVE  LET q == Ask(op, u, b)
           IN  /\ q \in MailForm /\ q.op = op /\ q.user = u /\ q.box = b /\ q.seen = row[b] /\ q.seen \in RowSet
               /\ q.lines = {} /\ q.name = "-"
               /\ \A n \in Domains \cup {"settings"} :
                     LET p == [q EXCEPT !.name = n]
                     IN  /\ p \in MailForm /\ p.op = op /\ p.user = u /\ p.box = b /\ p.seen = row[b]
                         /\ p.lines = {} /\ p.name = n
<1>1. row[b] \in RowSet  BY DEF MailTypes
<1> QED  BY <1>1 DEF Ask, MailForm, AllOps

LEMMA AnyBox == MailTypes => (CHOOSE b \in Boxes : TRUE) \in Boxes
BY DEF MailTypes

\* What the begin of a request does.
Starts(s, r) ==
    /\ Handles(s, r) /\ req[s] = Idle /\ r # Idle
    /\ overlap' = (overlap \/ ~Quiet) /\ torn' = torn \cup (IF Quiet THEN {} ELSE Boxes)
    /\ UNCHANGED <<production, row, maildir, userdb, mapVars, tables, loaded, lock, cut>>
    /\ domain' \in SUBSET Domains
    /\ \/ /\ r.op = "create" /\ r.box \in Boxes /\ r.user \in Users /\ quota(r.user) /\ r.seen = row[r.box]
          /\ domain' = domain
       \/ r.op = "delete" /\ r.box \in Boxes /\ get_mailbox_by_address(r.box) /\ domain' = domain
       \/ r.op = "render" /\ r.name = "settings" /\ domain' = domain
       \/ r.op = "add_domain" /\ domain' = domain
       \/ r.op = "lock"

\* The requests that begin.
LEMMA MailRequestsBegin ==
    ASSUME MailTypes, part = "mailboxes", NEW s \in Slots,
           \/ \E u \in Users, b \in Boxes : create_new_mailbox(s, u, b) \/ delete_existing_mailbox(s, u, b)
           \/ \E ok \in BOOLEAN : update_server_settings(s, ok)
           \/ \E d \in Domains : create_domain(s, d) \/ remove_domain(s, d)
    PROVE  \E r \in MailRequest : Starts(s, r)
<1> USE DEF AllOps, CreateOps, DeleteOps, MapOps, DomainOps
<1>1. \A r : Begin(s, r) => req' = [req EXCEPT ![s] = r] /\ req[s] = Idle /\ part' = part /\ overlap' = (overlap \/ ~Quiet)
  BY DEF Begin, Quiet
<1>2. domain \in SUBSET Domains /\ Admin \in Users  BY MailboxesAssumption DEF MailTypes
<1>3. ASSUME NEW u \in Users, NEW b \in Boxes, create_new_mailbox(s, u, b) \/ delete_existing_mailbox(s, u, b)
      PROVE  \E r \in MailRequest : Starts(s, r)
  <2>1. PICK op \in {"create", "delete"} :
            Open(s, Ask(op, u, b)) /\ (op = "create" => quota(u)) /\ (op = "delete" => get_mailbox_by_address(b))
    BY <1>3 DEF create_new_mailbox, delete_existing_mailbox, verify_mailbox_access
  <2> DEFINE r == Ask(op, u, b)
  <2>2. r \in MailForm /\ r.op = op /\ r.user = u /\ r.box = b /\ r.seen = row[b] /\ r.seen \in RowSet /\ r.name = "-"
    BY Asked
  <2>3. Begin(s, r) /\ torn' = torn \cup (IF Quiet THEN {} ELSE Boxes)
        /\ UNCHANGED <<production, row, maildir, userdb, mapVars, domainVars>>
    BY <2>1 DEF Open
  <2> HIDE DEF r
  <2>4. Fits(r)  BY <2>2 DEF Fits
  <2>5. Handles(s, r) /\ r # Idle  BY <2>2, <2>3, <2>4, <1>1, MailOps DEF Handles
  <2>6. r \in MailRequest  BY <2>5 DEF Handles
  <2> WITNESS r \in MailRequest
  <2> QED  BY <2>1, <2>2, <2>3, <2>5, <1>1, <1>2 DEF domainVars, Starts
<1>4. ASSUME NEW op \in {"render", "add_domain", "lock"}, NEW n \in Domains \cup {"settings"}, NEW b \in Boxes,
             op = "render" <=> n = "settings",
             Begin(s, [Ask(op, Admin, b) EXCEPT !.name = n])
      PROVE  \E r \in MailRequest : /\ Handles(s, r) /\ req[s] = Idle /\ r # Idle /\ overlap' = (overlap \/ ~Quiet)
                                    /\ r.op = op /\ r.name = n
  <2> DEFINE r == [Ask(op, Admin, b) EXCEPT !.name = n]
  <2>1. r \in MailForm /\ r.op = op /\ r.name = n /\ r.lines = {}  BY <1>2, Asked
  <2>2. Begin(s, r)  BY <1>4
  <2> HIDE DEF r
  <2>3. Fits(r)  BY <1>4, <2>1, MailOps DEF Fits
  <2>4. Handles(s, r) /\ r # Idle  BY <2>1, <2>2, <2>3, <1>1, MailOps DEF Handles
  <2>5. r \in MailRequest  BY <2>4 DEF Handles
  <2> WITNESS r \in MailRequest
  <2> QED  BY <2>1, <2>2, <2>4, <1>1
<1>5. ASSUME NEW ok \in BOOLEAN, update_server_settings(s, ok)
      PROVE  \E r \in MailRequest : Starts(s, r)
  <2>1. Begin(s, [Ask("render", Admin, CHOOSE b \in Boxes : TRUE) EXCEPT !.name = "settings"])
    BY <1>5 DEF update_server_settings
  <2>2. PICK r \in MailRequest : /\ Handles(s, r) /\ req[s] = Idle /\ r # Idle /\ overlap' = (overlap \/ ~Quiet)
                                 /\ r.op = "render" /\ r.name = "settings"
    BY <2>1, <1>4, AnyBox
  <2> WITNESS r \in MailRequest
  <2> QED  BY <2>2, <1>2, <1>5 DEF update_server_settings, domainVars, Starts
<1>6. ASSUME NEW d \in Domains, create_domain(s, d) \/ remove_domain(s, d)
      PROVE  \E r \in MailRequest : Starts(s, r)
  <2>0. d # "settings"  BY MailOps
  <2>1. CASE create_domain(s, d)
    <3>1. Begin(s, [Ask("add_domain", Admin, CHOOSE b \in Boxes : TRUE) EXCEPT !.name = d])
      BY <2>1 DEF create_domain, Open
    <3>2. PICK r \in MailRequest : /\ Handles(s, r) /\ req[s] = Idle /\ r # Idle /\ overlap' = (overlap \/ ~Quiet)
                                   /\ r.op = "add_domain" /\ r.name = d
      BY <3>1, <2>0, <1>4, AnyBox
    <3> WITNESS r \in MailRequest
    <3> QED  BY <3>2, <2>1, <1>2 DEF create_domain, Open, domainVars, Starts
  <2>2. CASE remove_domain(s, d)
    <3>1. Begin(s, [Ask("lock", Admin, CHOOSE b \in Boxes : TRUE) EXCEPT !.name = d])
      BY <2>2 DEF remove_domain
    <3>2. PICK r \in MailRequest : /\ Handles(s, r) /\ req[s] = Idle /\ r # Idle /\ overlap' = (overlap \/ ~Quiet)
                                   /\ r.op = "lock" /\ r.name = d
      BY <3>1, <2>0, <1>4, AnyBox
    <3> WITNESS r \in MailRequest
    <3> QED  BY <3>2, <2>2, <1>2 DEF remove_domain, Starts
  <2> QED  BY <1>6, <2>1, <2>2
<1> QED  BY <1>3, <1>5, <1>6

\* A request goes on to its next operation, or ends.
Same(r, q) == r.user = q.user /\ r.box = q.box /\ r.seen = q.seen /\ r.lines = q.lines /\ r.name = q.name

LEMMA StepGoes ==
    ASSUME MailTypes, part = "mailboxes", NEW s \in Slots, req[s].op # "idle", NEW op \in AllOps, Step(s, op),
           op \in CreateOps \cup DeleteOps => req[s].name = "-",
           op \in CreateOps => req[s].seen \in RowSet,
           op \notin {"relist", "rendered"},
           op \in DomainOps => req[s].name \in Domains,
           op \in {"opendkim", "vdomains"} \cup MapOps /\ req[s].name \in Domains => req[s].lines \in SUBSET Domains
    PROVE  \E r \in MailRequest : Handles(s, r) /\ r # Idle /\ r.op = op /\ Same(r, req[s]) /\ overlap' = overlap
<1> DEFINE r == [req[s] EXCEPT !.op = op]
<1>1. req[s] \in MailForm  BY MailOps DEF MailTypes
<1>2. r \in MailForm /\ r.op = op /\ Same(r, req[s])  BY <1>1, Reopened DEF Same
<1>3. req' = [req EXCEPT ![s] = r] /\ part' = part /\ overlap' = overlap  BY DEF Step, Goto
<1> HIDE DEF r
<1>4. Fits(r)  BY <1>2 DEF Fits, Same
<1>5. r \in MailRequest /\ r # Idle  BY <1>2, <1>4, MailOps
<1>6. Handles(s, r)  BY <1>3, <1>5 DEF Handles
<1> QED  BY <1>2, <1>3, <1>5, <1>6

LEMMA EndGoes ==
    ASSUME MailTypes, part = "mailboxes", NEW s \in Slots, End(s)
    PROVE  Handles(s, Idle) /\ overlap' = overlap
BY MailOps DEF End, Goto, Handles

LEMMA InMailForm ==
    ASSUME MailTypes, part = "mailboxes", NEW s \in Slots, req[s].op # "idle"
    PROVE  req[s] \in MailForm /\ Fits(req[s])
BY MailOps DEF MailTypes

\* Creations and deletions, step by step; the maps are the next thing in production.
ToMaps(s, r) == Handles(s, r) /\ overlap' = overlap /\ (IF production THEN r # Idle /\ r.op = "render" /\ r.name = "-" ELSE r = Idle)

LEMMA ToMapsGoes ==
    ASSUME MailTypes, part = "mailboxes", NEW s \in Slots, req[s].op # "idle", req[s].name = "-",
           IF production THEN Step(s, "render") ELSE End(s)
    PROVE  \E r \in MailRequest : ToMaps(s, r)
<1>1. CASE production
  <2>1. PICK r \in MailRequest : Handles(s, r) /\ r # Idle /\ r.op = "render" /\ Same(r, req[s]) /\ overlap' = overlap
    BY <1>1, StepGoes, MailOps DEF AllOps, CreateOps, DeleteOps, MapOps, DomainOps
  <2> WITNESS r \in MailRequest
  <2> QED  BY <1>1, <2>1 DEF ToMaps, Same
<1>2. CASE ~production
  <2> QED  BY <1>2, EndGoes, MailOps DEF ToMaps
<1> QED  BY <1>1, <1>2

\* A row is activated or not, with or without another owner.
Activated(b, a) == [row EXCEPT ![b].active = a]
Adopted(b, a, o) == [row EXCEPT ![b].active = a, ![b].owner = o]

LEMMA RowActivated ==
    ASSUME MailTypes, NEW b \in Boxes, NEW a \in BOOLEAN
    PROVE  LET new == Activated(b, a)
           IN  /\ new \in [Boxes -> RowSet] /\ \A x \in Boxes \ {b} : new[x] = row[x]
               /\ new[b].active = a /\ new[b].exists = row[b].exists /\ new[b].owner = row[b].owner
               /\ new[b].catchall = row[b].catchall
BY DEF Activated, RowSet, MailTypes

LEMMA RowAdopted ==
    ASSUME MailTypes, NEW b \in Boxes, NEW a \in BOOLEAN, NEW o \in Users \cup {Nobody}
    PROVE  LET new == Adopted(b, a, o)
           IN  /\ new \in [Boxes -> RowSet] /\ \A x \in Boxes \ {b} : new[x] = row[x]
               /\ new[b].active = a /\ new[b].exists = row[b].exists /\ new[b].owner = o
               /\ new[b].catchall = row[b].catchall
BY DEF Adopted, RowSet, MailTypes

LEMMA RowMade ==
    ASSUME MailTypes, NEW b \in Boxes, NEW r \in RowSet
    PROVE  LET new == [row EXCEPT ![b] = r]
           IN  new \in [Boxes -> RowSet] /\ new[b] = r /\ \A x \in Boxes \ {b} : new[x] = row[x]
BY DEF MailTypes

\* The row of a creation.
Creates(s, r) ==
    LET u == req[s].user  b == req[s].box  c == req[s].seen
    IN  /\ Handles(s, r) /\ overlap' = overlap /\ req[s].op = "create" /\ req[s].name = "-"
        /\ u \in Users /\ b \in Boxes /\ c \in RowSet
        /\ IF c.exists # row[b].exists THEN r = Idle /\ row' = row
           ELSE /\ r # Idle /\ r.op = "provision" /\ Same(r, req[s])
                /\ row' = IF ~c.exists THEN [row EXCEPT ![b] = Row(u, FALSE)]
                          ELSE Adopted(b, IF c.active THEN row[b].active ELSE TRUE, IF c.owner = u THEN row[b].owner ELSE u)

LEMMA CreateGoes ==
    ASSUME MailTypes, part = "mailboxes", NEW s \in Slots, create_mailbox(s)
    PROVE  \E r \in MailRequest : Creates(s, r)
<1>1. req[s].op = "create"  BY DEF create_mailbox, At
<1>2. req[s] \in MailForm /\ Fits(req[s])  BY <1>1, InMailForm
<1>3. req[s].user \in Users /\ req[s].box \in Boxes /\ req[s].seen \in RowSet /\ req[s].name = "-"
  BY <1>1, <1>2 DEF MailForm, Fits, CreateOps
<1>4. CASE req[s].seen.exists # row[req[s].box].exists
  <2>1. Handles(s, Idle) /\ overlap' = overlap /\ row' = row  BY <1>4, EndGoes DEF create_mailbox
  <2>2. Creates(s, Idle)  BY <1>1, <1>3, <1>4, <2>1 DEF Creates
  <2> QED  BY <2>2, MailOps
<1>5. CASE req[s].seen.exists = row[req[s].box].exists
  <2>1. Step(s, "provision")  BY <1>5 DEF create_mailbox
  <2>2. PICK r \in MailRequest : Handles(s, r) /\ r # Idle /\ r.op = "provision" /\ Same(r, req[s]) /\ overlap' = overlap
    BY <1>1, <1>3, <2>1, StepGoes DEF AllOps, CreateOps, DeleteOps, MapOps, DomainOps
  <2> DEFINE u == req[s].user  b == req[s].box  c == req[s].seen
  <2>3. CASE ~c.exists
    <3>1. row' = [row EXCEPT ![b] = Row(u, FALSE)]  BY <1>5, <2>3 DEF create_mailbox
    <3>2. Creates(s, r)  BY <1>1, <1>3, <1>5, <2>2, <2>3, <3>1 DEF Creates
    <3> QED  BY <3>2
  <2>4. CASE c.exists
    <3>1. row' = [row EXCEPT ![b].active = c.active => @, ![b].owner = IF c.owner = u THEN @ ELSE u]
      BY <1>5, <2>4 DEF create_mailbox
    <3>2. row \in [Boxes -> RowSet] /\ row[b] \in RowSet  BY <1>3 DEF MailTypes
    <3>3. row' = Adopted(b, IF c.active THEN row[b].active ELSE TRUE, IF c.owner = u THEN row[b].owner ELSE u)
      BY <1>3, <3>1, <3>2 DEF Adopted, RowSet
    <3>4. Creates(s, r)  BY <1>1, <1>3, <1>5, <2>2, <2>4, <3>3 DEF Creates
    <3> QED  BY <3>4
  <2> QED  BY <2>3, <2>4
<1> QED  BY <1>4, <1>5

LEMMA CreatedRow ==
    ASSUME MailTypes, NEW s \in Slots, NEW r, Creates(s, r), r # Idle
    PROVE  LET u == req[s].user  b == req[s].box  c == req[s].seen
           IN  /\ row' \in [Boxes -> RowSet] /\ \A x \in Boxes \ {b} : row'[x] = row[x]
               /\ row'[b].exists = TRUE
               /\ row'[b].active = IF c.exists /\ c.active THEN row[b].active ELSE TRUE
               /\ row'[b].owner = IF c.exists /\ c.owner = u THEN row[b].owner ELSE u
               /\ row'[b].catchall = IF c.exists THEN row[b].catchall ELSE FALSE
<1> DEFINE u == req[s].user  b == req[s].box  c == req[s].seen
<1>1. row[b] \in RowSet /\ Row(u, FALSE) \in RowSet /\ c \in RowSet /\ u \in Users /\ b \in Boxes /\ c.exists = row[b].exists
  BY RowsTyped DEF MailTypes, Creates
<1>2. CASE ~c.exists
  <2>1. row' = [row EXCEPT ![b] = Row(u, FALSE)]  BY <1>2 DEF Creates
  <2> DEFINE m == Row(u, FALSE)
  <2>2. row' = [row EXCEPT ![b] = m] /\ m \in RowSet  BY <1>1, <2>1
  <2> HIDE DEF b, m
  <2>3. row' \in [Boxes -> RowSet] /\ row'[b] = m /\ \A x \in Boxes \ {b} : row'[x] = row[x]
    BY <1>1, <2>2, RowMade
  <2>4. m.exists = TRUE /\ m.active = TRUE /\ m.owner = u /\ m.catchall = FALSE  BY RowsTyped DEF m
  <2> HIDE DEF c, u
  <2>5. /\ row' \in [Boxes -> RowSet] /\ \A x \in Boxes \ {b} : row'[x] = row[x]
        /\ row'[b].exists = TRUE
        /\ row'[b].active = IF c.exists /\ c.active THEN row[b].active ELSE TRUE
        /\ row'[b].owner = IF c.exists /\ c.owner = u THEN row[b].owner ELSE u
        /\ row'[b].catchall = IF c.exists THEN row[b].catchall ELSE FALSE
    BY <1>2, <2>3, <2>4
  <2> QED  BY <2>5 DEF b, c, u
<1>3. CASE c.exists
  <2> DEFINE a == IF c.active THEN row[b].active ELSE TRUE  o == IF c.owner = u THEN row[b].owner ELSE u
  <2>1. row' = Adopted(b, a, o)  BY <1>3 DEF Creates
  <2>2. a \in BOOLEAN /\ o \in Users \cup {Nobody}  BY <1>1 DEF RowSet
  <2> HIDE DEF a, o, b
  <2>3. /\ row' \in [Boxes -> RowSet] /\ \A x \in Boxes \ {b} : row'[x] = row[x]
        /\ row'[b].active = a /\ row'[b].exists = row[b].exists /\ row'[b].owner = o
        /\ row'[b].catchall = row[b].catchall
    BY <1>1, <2>1, <2>2, RowAdopted
  <2> QED  BY <1>1, <1>3, <2>3 DEF a, o, b
<1> QED  BY <1>1, <1>2, <1>3 DEF RowSet

LEMMA ProvisionGoes ==
    ASSUME MailTypes, part = "mailboxes", NEW s \in Slots, NEW n \in 0..3, provision_system_mailbox(s, n)
    PROVE  LET b == req[s].box
           IN  /\ req[s].op = "provision" /\ b \in Boxes /\ req[s].name = "-"
               /\ \E r \in MailRequest :
                    \/ Handles(s, r) /\ overlap' = overlap /\ r # Idle /\ r.op = "undo" /\ Same(r, req[s]) /\ userdb' = userdb /\ vmap' = vmap
                    \/ ToMaps(s, r) /\ userdb' = userdb \cup {b} /\ vmap' \in {vmap, vmap \cup {b}}
<1>1. req[s].op = "provision"  BY DEF provision_system_mailbox, At
<1>2. req[s] \in MailForm /\ Fits(req[s])  BY <1>1, InMailForm
<1>3. req[s].box \in Boxes /\ req[s].seen \in RowSet /\ req[s].name = "-"
  BY <1>1, <1>2 DEF MailForm, Fits, CreateOps
<1>4. CASE n < 2
  <2>1. Step(s, "undo")  BY <1>4 DEF provision_system_mailbox
  <2>2. PICK r \in MailRequest : Handles(s, r) /\ r # Idle /\ r.op = "undo" /\ Same(r, req[s]) /\ overlap' = overlap
    BY <1>1, <1>3, <2>1, StepGoes DEF AllOps, CreateOps, DeleteOps, MapOps, DomainOps
  <2>3. userdb' = userdb /\ vmap' = vmap  BY <1>4 DEF provision_system_mailbox
  <2> QED  BY <1>1, <1>3, <2>2, <2>3
<1>5. CASE n >= 2
  <2>1. IF production THEN Step(s, "render") ELSE End(s)  BY <1>5 DEF provision_system_mailbox
  <2>2. PICK r \in MailRequest : ToMaps(s, r)  BY <1>1, <1>3, <2>1, ToMapsGoes
  <2>3. userdb' = userdb \cup {req[s].box} /\ vmap' \in {vmap, vmap \cup {req[s].box}}
    BY <1>5 DEF provision_system_mailbox
  <2> QED  BY <1>1, <1>3, <2>2, <2>3
<1> QED  BY <1>4, <1>5

LEMMA UndoGoes ==
    ASSUME MailTypes, part = "mailboxes", NEW s \in Slots, undo_create(s)
    PROVE  /\ Handles(s, Idle) /\ overlap' = overlap /\ req[s].op = "undo" /\ req[s].name = "-"
           /\ req[s].box \in Boxes /\ req[s].seen \in RowSet
<1>1. req[s].op = "undo"  BY DEF undo_create, At
<1>2. req[s] \in MailForm /\ Fits(req[s])  BY <1>1, InMailForm
<1>3. Handles(s, Idle) /\ overlap' = overlap  BY EndGoes DEF undo_create
<1> QED  BY <1>1, <1>2, <1>3 DEF MailForm, Fits, CreateOps

LEMMA DeleteGoes ==
    ASSUME MailTypes, part = "mailboxes", NEW s \in Slots, delete_mailbox(s)
    PROVE  /\ req[s].op = "delete" /\ req[s].box \in Boxes /\ req[s].name = "-"
           /\ \E r \in MailRequest : Handles(s, r) /\ r # Idle /\ r.op = "unlist" /\ Same(r, req[s]) /\ overlap' = overlap
<1>1. req[s].op = "delete" /\ Step(s, "unlist")  BY DEF delete_mailbox, At
<1>2. req[s] \in MailForm /\ Fits(req[s])  BY <1>1, InMailForm
<1>3. req[s].box \in Boxes /\ req[s].name = "-"  BY <1>1, <1>2 DEF MailForm, Fits, DeleteOps
<1> QED  BY <1>1, <1>3, StepGoes DEF AllOps, CreateOps, DeleteOps, MapOps, DomainOps

\* The users file without the box.
Reads(s, r) ==
    /\ Handles(s, r) /\ overlap' = overlap /\ r # Idle /\ r.op = "relist" /\ r.name = "-" /\ r.box = req[s].box
    /\ r.lines = userdb \ {req[s].box}

LEMMA UnlistGoes ==
    ASSUME MailTypes, part = "mailboxes", NEW s \in Slots, NEW ok \in BOOLEAN, ReadUsersFile(s, ok)
    PROVE  /\ req[s].op = "unlist" /\ req[s].box \in Boxes /\ req[s].name = "-"
           /\ \E r \in MailRequest : \/ Reads(s, r) /\ torn' = torn
                                     \/ ToMaps(s, r) /\ torn' = torn \cup {req[s].box}
<1>1. req[s].op = "unlist"  BY DEF ReadUsersFile, At
<1>2. req[s] \in MailForm /\ Fits(req[s])  BY <1>1, InMailForm
<1>3. req[s].box \in Boxes /\ req[s].name = "-"  BY <1>1, <1>2 DEF MailForm, Fits, DeleteOps
<1>4. CASE ok
  <2> DEFINE q == [req[s] EXCEPT !.op = "relist"]
             r == [req[s] EXCEPT !.op = "relist", !.lines = userdb \ {req[s].box}]
  <2>1. userdb \in SUBSET Boxes  BY DEF MailTypes
  <2>2. r \in MailForm /\ r.op = "relist" /\ r.lines = userdb \ {req[s].box} /\ r.box = req[s].box /\ r.name = "-"
    BY <1>2, <1>3, <2>1 DEF MailForm, DeleteOps
  <2>3. req' = [req EXCEPT ![s] = r] /\ part' = part /\ overlap' = overlap /\ torn' = torn
    BY <1>4, <2>1 DEF ReadUsersFile, Goto, MailTypes
  <2> HIDE DEF r
  <2>4. Fits(r)  BY <2>1, <2>2, MailOps DEF Fits, DeleteOps, CreateOps, DomainOps, MapOps
  <2>5. r \in MailRequest /\ r # Idle  BY <2>2, <2>4, MailOps
  <2>6. Reads(s, r)  BY <2>2, <2>3, <2>5 DEF Reads, Handles
  <2> QED  BY <1>1, <1>3, <2>3, <2>5, <2>6
<1>5. CASE ~ok
  <2>1. IF production THEN Step(s, "render") ELSE End(s)  BY <1>5 DEF ReadUsersFile
  <2>2. PICK r \in MailRequest : ToMaps(s, r)  BY <1>1, <1>3, <2>1, ToMapsGoes
  <2>3. torn' = torn \cup {req[s].box}  BY <1>5 DEF ReadUsersFile
  <2> QED  BY <1>1, <1>3, <2>2, <2>3
<1> QED  BY <1>4, <1>5

LEMMA RelistGoes ==
    ASSUME MailTypes, part = "mailboxes", NEW s \in Slots, remove_from_dovecot_users(s)
    PROVE  /\ req[s].op = "relist" /\ req[s].box \in Boxes /\ req[s].name = "-" /\ req[s].lines \in SUBSET Boxes
           /\ \E r \in MailRequest : ToMaps(s, r)
<1>1. req[s].op = "relist"  BY DEF remove_from_dovecot_users, At
<1>2. req[s] \in MailForm /\ Fits(req[s])  BY <1>1, InMailForm
<1>3. req[s].box \in Boxes /\ req[s].name = "-" /\ req[s].lines \in SUBSET Boxes
  BY <1>1, <1>2 DEF MailForm, Fits, DeleteOps
<1>4. IF production THEN Step(s, "render") ELSE End(s)  BY DEF remove_from_dovecot_users
<1> QED  BY <1>1, <1>3, <1>4, ToMapsGoes

\* The maps: read, then written.
ReadsRows(s, r) ==
    /\ Handles(s, r) /\ overlap' = overlap /\ r # Idle /\ r.op = "rendered" /\ r.seen = MailboxMaps
    /\ r.name = req[s].name /\ r.lines = req[s].lines

LEMMA RenderGoes ==
    ASSUME MailTypes, part = "mailboxes", NEW s \in Slots, ReadMailboxRows(s)
    PROVE  req[s].op = "render" /\ \E r \in MailRequest : ReadsRows(s, r)
<1> DEFINE r == [req[s] EXCEPT !.op = "rendered", !.seen = MailboxMaps]
<1>1. req[s].op = "render"  BY DEF ReadMailboxRows, At
<1>2. req[s] \in MailForm /\ Fits(req[s])  BY <1>1, InMailForm
<1>3. MailboxMaps \in MapSet  BY DEF MailboxMaps, MapSet, Active, MailTypes
<1>4. r \in MailForm /\ r.op = "rendered" /\ r.seen = MailboxMaps /\ r.lines = req[s].lines /\ r.name = req[s].name
  BY <1>2, <1>3 DEF MailForm, MapOps
<1>5. req' = [req EXCEPT ![s] = r] /\ part' = part /\ overlap' = overlap  BY DEF ReadMailboxRows, Goto
<1> HIDE DEF r
<1>6. Fits(r)  BY <1>1, <1>2, <1>3, <1>4 DEF Fits, MapOps, CreateOps, DeleteOps, DomainOps
<1>7. r \in MailRequest /\ r # Idle  BY <1>4, <1>6, MailOps
<1>8. ReadsRows(s, r)  BY <1>4, <1>5, <1>7 DEF ReadsRows, Handles
<1> QED  BY <1>1, <1>7, <1>8

LEMMA RenderedGoes ==
    ASSUME MailTypes, part = "mailboxes", NEW s \in Slots, rebuild_postfix_virtual_mailboxes(s)
    PROVE  /\ req[s].op = "rendered" /\ req[s].seen \in MapSet /\ overlap' = overlap
           /\ \/ Handles(s, Idle) /\ req[s].name = "-"
              \/ \E r \in MailRequest : Handles(s, r) /\ r # Idle /\ r.op = "reload" /\ Same(r, req[s])
<1>1. req[s].op = "rendered"  BY DEF rebuild_postfix_virtual_mailboxes, At
<1>2. req[s] \in MailForm /\ Fits(req[s])  BY <1>1, InMailForm
<1>3. req[s].seen \in MapSet /\ (req[s].name \in Domains => req[s].lines \in SUBSET Domains)
  BY <1>1, <1>2 DEF Fits, MapOps
<1>4. CASE req[s].name = "-"  BY <1>1, <1>3, <1>4, EndGoes DEF rebuild_postfix_virtual_mailboxes
<1>5. CASE req[s].name # "-"
  <2>1. Step(s, "reload")  BY <1>5 DEF rebuild_postfix_virtual_mailboxes
  <2>2. PICK r \in MailRequest : Handles(s, r) /\ r # Idle /\ r.op = "reload" /\ Same(r, req[s]) /\ overlap' = overlap
    BY <1>1, <1>3, <2>1, StepGoes DEF AllOps, CreateOps, DeleteOps, MapOps, DomainOps
  <2> QED  BY <1>1, <1>3, <2>2
<1> QED  BY <1>4, <1>5

\* Steps of mailbox requests: neither a row that waits nor one that works is touched.
LEMMA BeginsKeepDomains ==
    ASSUME DomainInv, NEW s, NEW r, Starts(s, r)
    PROVE  DomainInv'
<1>1. /\ Handles(s, r) /\ UNCHANGED <<production, row, userdb, vmap, tables, loaded, lock, cut>> /\ req[s] = Idle
      /\ torn' = torn \cup (IF Quiet THEN {} ELSE Boxes) /\ domain' \in SUBSET Domains
  BY DEF Starts, mapVars
<1>2. MailTypes  BY DEF DomainInv
<1>3. MailTypes'  BY <1>1, <1>2, MailRequestStep DEF MailTypes, Handles
<1>4. ~Works(r)
  <2>1. \/ r.op \in {"create", "delete", "add_domain", "lock"}
        \/ r.op = "render" /\ r.name = "settings"
    BY DEF Starts
  <2> QED  BY <2>1, MailOps DEF Works, MapOps
<1>5. domain' = domain \/ Waits(r)  BY DEF Starts, Waits
<1> QED  BY <1>1, <1>3, <1>4, <1>5, MailOps, DomainFrame

LEMMA CreateStepsKeepDomains ==
    ASSUME DomainInv, part = "mailboxes", NEW s \in Slots,
           \/ create_mailbox(s) \/ undo_create(s) \/ delete_mailbox(s) \/ remove_from_dovecot_users(s)
           \/ \E n \in 0..3 : provision_system_mailbox(s, n)
           \/ \E ok \in BOOLEAN : ReadUsersFile(s, ok)
    PROVE  DomainInv'
<1>1. MailTypes  BY DEF DomainInv
<1>2. \A r : ToMaps(s, r) => Handles(s, r) /\ ~Works(r)  BY MailOps DEF ToMaps, Works
<1>3. PICK r \in MailRequest :
          /\ Handles(s, r) /\ ~Works(r) /\ ~Works(req[s]) /\ ~Waits(req[s]) /\ UNCHANGED <<domainVars, production>>
          /\ row' \in [Boxes -> RowSet] /\ userdb' \in SUBSET Boxes /\ vmap' \in SUBSET Boxes /\ torn' \in SUBSET Boxes
  <2>1. CASE create_mailbox(s)
    <3>1. PICK r \in MailRequest : Creates(s, r)  BY <2>1, <1>1, CreateGoes
    <3>2. Handles(s, r) /\ req[s].op = "create" /\ req[s].name = "-"  BY <3>1 DEF Creates
    <3>3. ~Works(r)  BY <3>1, MailOps DEF Creates, Works, MapOps
    <3>4. row' \in [Boxes -> RowSet]
      <4>1. CASE r = Idle  BY <1>1, <3>1, <4>1 DEF Creates, MailTypes
      <4>2. CASE r # Idle  BY <1>1, <3>1, <4>2, CreatedRow
      <4> QED  BY <4>1, <4>2
    <3>5. UNCHANGED <<domainVars, production, userdb, vmap, torn>>  BY <2>1 DEF create_mailbox, mapVars
    <3> QED  BY <1>1, <3>2, <3>3, <3>4, <3>5 DEF Works, Waits, MapOps, MailTypes
  <2>2. CASE undo_create(s)
    <3>1. Handles(s, Idle) /\ req[s].op = "undo" /\ req[s].box \in Boxes  BY <2>2, <1>1, UndoGoes
    <3>2. row' \in [Boxes -> RowSet]
      <4>1. row' = Activated(req[s].box, FALSE) \/ row' = [row EXCEPT ![req[s].box] = NoRow]
        BY <2>2 DEF undo_create, Activated
      <4>2. Activated(req[s].box, FALSE) \in [Boxes -> RowSet]  BY <1>1, <3>1, RowActivated
      <4>3. [row EXCEPT ![req[s].box] = NoRow] \in [Boxes -> RowSet]  BY <1>1, <3>1, RowsTyped, RowMade
      <4> QED  BY <4>1, <4>2, <4>3
    <3>3. torn' \in SUBSET Boxes /\ UNCHANGED <<domainVars, production, userdb, vmap>>
      BY <2>2, <1>1, <3>1 DEF undo_create, MailTypes, mapVars
    <3> QED  BY <1>1, <3>1, <3>2, <3>3, MailOps DEF Works, Waits, MapOps, MailTypes
  <2>3. CASE delete_mailbox(s)
    <3>1. /\ req[s].op = "delete" /\ req[s].box \in Boxes
          /\ \E r \in MailRequest : Handles(s, r) /\ r.op = "unlist"
      BY <2>3, <1>1, DeleteGoes
    <3>2. row' \in [Boxes -> RowSet]
      <4>1. row' = Activated(req[s].box, FALSE) \/ row' = row  BY <2>3 DEF delete_mailbox, Activated
      <4> QED  BY <1>1, <3>1, <4>1, RowActivated DEF MailTypes
    <3>3. UNCHANGED <<domainVars, production, userdb, vmap, torn>>  BY <2>3 DEF delete_mailbox, mapVars
    <3> QED  BY <1>1, <3>1, <3>2, <3>3 DEF Works, Waits, MapOps, MailTypes
  <2>4. CASE remove_from_dovecot_users(s)
    <3>1. /\ req[s].op = "relist" /\ req[s].lines \in SUBSET Boxes
          /\ \E r \in MailRequest : ToMaps(s, r)
      BY <2>4, <1>1, RelistGoes
    <3>2. userdb' = req[s].lines /\ UNCHANGED <<domainVars, production, row, vmap, torn>>
      BY <2>4 DEF remove_from_dovecot_users, mapVars
    <3> QED  BY <1>1, <1>2, <3>1, <3>2 DEF Works, Waits, MapOps, MailTypes
  <2>5. CASE \E n \in 0..3 : provision_system_mailbox(s, n)
    <3>1. PICK n \in 0..3 : provision_system_mailbox(s, n)  BY <2>5
    <3>2. /\ req[s].op = "provision" /\ req[s].box \in Boxes
          /\ \E r \in MailRequest : Handles(s, r) /\ ~Works(r)
          /\ userdb' \in {userdb, userdb \cup {req[s].box}} /\ vmap' \in {vmap, vmap \cup {req[s].box}}
      BY <3>1, <1>1, <1>2, ProvisionGoes DEF Works, MapOps
    <3>3. UNCHANGED <<domainVars, production, row, torn>>  BY <3>1 DEF provision_system_mailbox
    <3> QED  BY <1>1, <3>2, <3>3 DEF Works, Waits, MapOps, MailTypes
  <2>6. CASE \E ok \in BOOLEAN : ReadUsersFile(s, ok)
    <3>1. PICK ok \in BOOLEAN : ReadUsersFile(s, ok)  BY <2>6
    <3>2. /\ req[s].op = "unlist" /\ req[s].box \in Boxes
          /\ \E r \in MailRequest : Handles(s, r) /\ ~Works(r)
          /\ torn' \in {torn, torn \cup {req[s].box}}
      BY <3>1, <1>1, <1>2, UnlistGoes DEF Reads, Works, MapOps
    <3>3. UNCHANGED <<domainVars, production, row, userdb, vmap>>  BY <3>1 DEF ReadUsersFile, mapVars
    <3> QED  BY <1>1, <3>2, <3>3 DEF Works, Waits, MapOps, MailTypes
  <2> QED  BY <2>1, <2>2, <2>3, <2>4, <2>5, <2>6
<1>4. MailTypes'  BY <1>1, <1>3, MailRequestStep DEF MailTypes, Handles, domainVars
<1> QED  BY <1>3, <1>4, DomainFrame DEF domainVars

\* The maps are read and written, by the one that works or by others.
LEMMA MapStepsKeepDomains ==
    ASSUME DomainInv, part = "mailboxes", NEW s \in Slots, ReadMailboxRows(s) \/ rebuild_postfix_virtual_mailboxes(s)
    PROVE  DomainInv'
<1>1. MailTypes  BY DEF DomainInv
<1>2. /\ UNCHANGED <<domainVars, production, row, userdb, torn>> /\ vmap' \in SUBSET Boxes /\ req[s].op \in MapOps
      /\ \/ Handles(s, Idle) /\ req[s].name = "-"
         \/ \E r \in MailRequest : Handles(s, r) /\ r.op \in MapOps /\ r.name = req[s].name /\ r.lines = req[s].lines
  <2>1. CASE ReadMailboxRows(s)
    <3>1. UNCHANGED mailboxVars  BY <2>1 DEF ReadMailboxRows
    <3>2. req[s].op = "render" /\ \E r \in MailRequest : ReadsRows(s, r)  BY <1>1, <2>1, RenderGoes
    <3> QED  BY <1>1, <3>1, <3>2 DEF ReadsRows, MapOps, mailboxVars, domainVars, mapVars, MailTypes
  <2>2. CASE rebuild_postfix_virtual_mailboxes(s)
    <3>1. /\ req[s].op = "rendered" /\ req[s].seen \in MapSet
          /\ \/ Handles(s, Idle) /\ req[s].name = "-"
             \/ \E r \in MailRequest : Handles(s, r) /\ r # Idle /\ r.op = "reload" /\ Same(r, req[s])
      BY <1>1, <2>2, RenderedGoes
    <3>2. vmap' = req[s].seen.boxes /\ UNCHANGED <<domainVars, production, row, userdb, torn>>
      BY <2>2 DEF rebuild_postfix_virtual_mailboxes
    <3>3. vmap' \in SUBSET Boxes  BY <3>1, <3>2 DEF MapSet
    <3> QED  BY <3>1, <3>2, <3>3 DEF MapOps, Same
  <2> QED  BY <2>1, <2>2
<1>3. PICK r \in MailRequest :
          /\ Handles(s, r)
          /\ (r = Idle /\ req[s].name = "-") \/ (r.op \in MapOps /\ r.name = req[s].name /\ r.lines = req[s].lines)
  BY <1>2, MailOps
<1>4. MailTypes'  BY <1>1, <1>2, <1>3, MailRequestStep DEF MailTypes, Handles, domainVars
<1>5. /\ s \in Slots /\ req'[s] = r /\ \A t \in Slots \ {s} : req'[t] = req[t]
      /\ \A t \in Slots : /\ Waiting(t) <=> Waits(req[t])
                          /\ Working(t) <=> Works(req[t])
                          /\ Waiting(t)' <=> Waits(req'[t])
                          /\ Working(t)' <=> Works(req'[t])
  BY <1>1, <1>3, MailRequestStep
<1>6. /\ ~Waits(req[s]) /\ (Works(r) <=> Works(req[s]))
      /\ Works(req[s]) => r.op \in MapOps /\ r.lines = req[s].lines
  BY <1>2, <1>3, MailOps DEF Works, Waits, MapOps
<1>7. \A t \in Slots : Working(t)' <=> Working(t)  BY <1>5, <1>6
<1>8. \A t \in Slots : Waiting(t) => Waiting(t)'  BY <1>5, <1>6
<1>9. ASSUME NEW t \in Slots, Working(t)
      PROVE  /\ req'[t].lines = req[t].lines
             /\ req'[t].op \in MapOps => req[t].op \in MapOps
             /\ req'[t].op # "opendkim" => req[t].op # "opendkim"
  BY <1>2, <1>5, <1>6, <1>9 DEF MapOps
<1>10. UNCHANGED <<domain, tables, loaded, lock, cut>>  BY <1>2 DEF domainVars
<1>11. LockHeld'  BY <1>7, <1>9, <1>10 DEF DomainInv, LockHeld
<1>12. LastChange'  BY <1>7, <1>8, <1>9, <1>10 DEF DomainInv, LastChange
<1> QED  BY <1>4, <1>11, <1>12 DEF DomainInv

LEMMA AddDomainKeeps ==
    ASSUME DomainInv, part = "mailboxes", NEW s \in Slots, add_domain(s)
    PROVE  DomainInv'
<1>1. MailTypes  BY DEF DomainInv
<1>2. req[s].op = "add_domain"  BY DEF add_domain, At
<1>3. req[s] \in MailForm /\ Fits(req[s])  BY <1>1, <1>2, InMailForm
<1>4. req[s].name \in Domains  BY <1>2, <1>3 DEF Fits, DomainOps
<1>5. PICK r \in MailRequest : Handles(s, r) /\ ((r = Idle /\ domain' = domain) \/ (r.op = "lock" /\ domain' = domain \cup {req[s].name}))
  <2>1. CASE req[s].name \in domain
    <3>1. Handles(s, Idle) /\ domain' = domain  BY <1>1, <2>1, EndGoes DEF add_domain
    <3> QED  BY <3>1, MailOps
  <2>2. CASE req[s].name \notin domain
    <3>1. Step(s, "lock") /\ domain' = domain \cup {req[s].name}  BY <2>2 DEF add_domain
    <3>2. PICK r \in MailRequest : Handles(s, r) /\ r.op = "lock"
      BY <1>1, <1>2, <1>4, <3>1, StepGoes DEF AllOps, CreateOps, DeleteOps, MapOps, DomainOps
    <3> QED  BY <3>1, <3>2
  <2> QED  BY <2>1, <2>2
<1>6. UNCHANGED <<production, row, userdb, mapVars, tables, loaded, lock, torn, cut>>  BY DEF add_domain
<1>7. MailTypes'  BY <1>1, <1>4, <1>5, <1>6, MailRequestStep DEF MailTypes, Handles, mapVars
<1>8. ~Works(r) /\ ~Works(req[s]) /\ ~Waits(req[s]) /\ (domain' = domain \/ Waits(r))
  BY <1>2, <1>5, MailOps DEF Works, Waits, MapOps
<1> QED  BY <1>5, <1>6, <1>7, <1>8, DomainFrame

\* Mail requests and the catch-all that touch no request.
LEMMA QuietStepsKeepDomains ==
    ASSUME DomainInv, list_all_mailboxes \/ \E b \in Boxes : CatchAllDelivery(b)
    PROVE  DomainInv'
<1>1. /\ UNCHANGED <<part, req, production, userdb, mapVars, domainVars, torn>>
  BY DEF list_all_mailboxes, CatchAllDelivery, Serve, requestVars
<1>2. row' \in [Boxes -> RowSet]
  <2>1. CASE list_all_mailboxes
    <3>1. row' = [b \in Boxes |-> IF b \in maildir /\ ~row[b].exists THEN Row(Admin, TRUE)
                     ELSE IF b \in maildir /\ row[b].active /\ row[b].owner = Nobody
                          THEN [row[b] EXCEPT !.owner = Admin, !.catchall = TRUE]
                     ELSE row[b]]
      BY <2>1 DEF list_all_mailboxes, sync_filesystem_mailboxes
    <3>2. row \in [Boxes -> RowSet] /\ Row(Admin, TRUE) \in RowSet /\ Admin \in Users
      BY RowsTyped, MailboxesAssumption DEF DomainInv, MailTypes
    <3>3. \A b \in Boxes : [row[b] EXCEPT !.owner = Admin, !.catchall = TRUE] \in RowSet  BY <3>2 DEF RowSet
    <3> QED  BY <3>1, <3>2, <3>3
  <2>2. CASE \E b \in Boxes : CatchAllDelivery(b)  BY <2>2 DEF CatchAllDelivery, DomainInv, MailTypes
  <2> QED  BY <2>1, <2>2
<1>3. MailTypes'  BY <1>1, <1>2 DEF DomainInv, MailTypes, mapVars, domainVars
<1>4. LockHeld' /\ LastChange'  BY <1>1 DEF DomainInv, LockHeld, LastChange, Waiting, Working, domainVars
<1> QED  BY <1>3, <1>4 DEF DomainInv

\* The lock is taken and the rows are read.
LEMMA LockStepKeeps ==
    ASSUME DomainInv, part = "mailboxes", NEW s \in Slots, ReadDomains(s)
    PROVE  DomainInv'
<1> DEFINE r == [req[s] EXCEPT !.op = "opendkim", !.lines = domain]
<1>1. MailTypes /\ domain \in SUBSET Domains  BY DEF DomainInv, MailTypes
<1>2. req[s].op = "lock"  BY DEF ReadDomains, At
<1>3. req[s] \in MailForm /\ Fits(req[s])  BY <1>1, <1>2, InMailForm
<1>4. req[s].name \in Domains  BY <1>2, <1>3 DEF Fits, DomainOps
<1>5. r \in MailForm /\ r.op = "opendkim" /\ r.lines = domain /\ r.name = req[s].name
  BY <1>1, <1>3 DEF MailForm, DomainOps
<1>6. req' = [req EXCEPT ![s] = r] /\ part' = part  BY DEF ReadDomains, Goto
<1> HIDE DEF r
<1>7. Fits(r)  BY <1>1, <1>4, <1>5 DEF Fits, CreateOps, DeleteOps, MapOps
<1>8. Handles(s, r)  BY <1>5, <1>6, <1>7, MailOps DEF Handles
<1>9. UNCHANGED <<production, row, userdb, mapVars, domain, tables, loaded, torn, cut>> /\ lock = Free /\ lock' = s
  BY DEF ReadDomains
<1>10. MailTypes'  BY <1>1, <1>8, <1>9, MailRequestStep DEF MailTypes, Handles, mapVars
<1>11. /\ req'[s] = r /\ \A t \in Slots \ {s} : req'[t] = req[t]
       /\ \A t \in Slots : Working(t) <=> Works(req[t])
       /\ \A t \in Slots : Working(t)' <=> Works(req'[t])
  BY <1>1, <1>8, MailRequestStep
<1>12. \A t \in Slots : ~Working(t)  BY <1>9, MailboxesAssumption DEF DomainInv, LockHeld
<1>13. Works(r)  BY <1>4, <1>5 DEF Works
<1>14. \A t \in Slots : Working(t)' <=> t = s  BY <1>11, <1>12, <1>13
<1>15. LockHeld'  BY <1>5, <1>9, <1>11, <1>14 DEF LockHeld, MapOps
<1>16. LastChange'  BY <1>5, <1>9, <1>11, <1>14 DEF LastChange
<1> QED  BY <1>10, <1>15, <1>16 DEF DomainInv

\* The files are written under the lock.
LEMMA WriteStepsKeep ==
    ASSUME DomainInv, part = "mailboxes", NEW s \in Slots, rebuild_opendkim_tables(s) \/ rebuild_postfix_virtual_domains(s)
    PROVE  DomainInv'
<1>1. MailTypes /\ tables \in [dkim : SUBSET Domains, virtual : SUBSET Domains]  BY DEF DomainInv, MailTypes
<1>2. req[s].op \in {"opendkim", "vdomains"}  BY DEF rebuild_opendkim_tables, rebuild_postfix_virtual_domains, At
<1>3. req[s] \in MailForm /\ Fits(req[s])  BY <1>1, <1>2, InMailForm
<1>4. req[s].name \in Domains /\ req[s].lines \in SUBSET Domains  BY <1>2, <1>3 DEF Fits, DomainOps
<1>5. PICK r \in MailRequest :
          /\ Handles(s, r) /\ Works(r) /\ r.lines = req[s].lines /\ r.op # "opendkim"
          /\ tables' \in [dkim : SUBSET Domains, virtual : SUBSET Domains]
          /\ \/ r.op = "vdomains" /\ tables'.dkim = r.lines
             \/ tables'.dkim = tables.dkim /\ req[s].op = "vdomains" /\ tables'.virtual = r.lines
  <2>1. CASE rebuild_opendkim_tables(s)
    <3>1. Step(s, "vdomains") /\ tables' = [tables EXCEPT !.dkim = req[s].lines]  BY <2>1 DEF rebuild_opendkim_tables
    <3>2. PICK r \in MailRequest : Handles(s, r) /\ r.op = "vdomains" /\ Same(r, req[s])
      BY <1>1, <1>2, <1>4, <3>1, StepGoes DEF AllOps, CreateOps, DeleteOps, MapOps, DomainOps
    <3>3. tables'.dkim = req[s].lines /\ tables' \in [dkim : SUBSET Domains, virtual : SUBSET Domains]
      BY <1>1, <1>4, <3>1
    <3> QED  BY <1>4, <3>2, <3>3 DEF Same, Works
  <2>2. CASE rebuild_postfix_virtual_domains(s)
    <3>1. /\ req[s].op = "vdomains" /\ (Step(s, "render") \/ Step(s, "reload"))
          /\ tables' = [tables EXCEPT !.virtual = req[s].lines]
      BY <2>2 DEF rebuild_postfix_virtual_domains, At
    <3>2. PICK r \in MailRequest : Handles(s, r) /\ r.op \in {"render", "reload"} /\ Same(r, req[s])
      BY <1>1, <1>2, <1>4, <3>1, StepGoes DEF AllOps, CreateOps, DeleteOps, MapOps, DomainOps
    <3>3. /\ tables'.virtual = req[s].lines /\ tables'.dkim = tables.dkim
          /\ tables' \in [dkim : SUBSET Domains, virtual : SUBSET Domains]
      BY <1>1, <1>4, <3>1
    <3> QED  BY <1>4, <3>1, <3>2, <3>3 DEF Same, Works, MapOps
  <2> QED  BY <2>1, <2>2
<1>6. UNCHANGED <<production, row, userdb, mapVars, domain, loaded, lock, torn, cut>>
  BY DEF rebuild_opendkim_tables, rebuild_postfix_virtual_domains
<1>7. MailTypes'  BY <1>1, <1>5, <1>6, MailRequestStep DEF MailTypes, Handles, mapVars
<1>8. /\ req'[s] = r /\ \A t \in Slots \ {s} : req'[t] = req[t]
      /\ \A t \in Slots : /\ Waiting(t) <=> Waits(req[t])
                          /\ Working(t) <=> Works(req[t])
                          /\ Waiting(t)' <=> Waits(req'[t])
                          /\ Working(t)' <=> Works(req'[t])
  BY <1>1, <1>5, MailRequestStep
<1>9. Works(req[s]) /\ ~Waits(req[s])  BY <1>2, <1>4 DEF Works, Waits
<1>10. \A t \in Slots : /\ Working(t)' <=> Working(t)
                        /\ Working(t) => t = s
                        /\ Waiting(t) => Waiting(t)'
  BY <1>5, <1>8, <1>9 DEF DomainInv, LockHeld
<1>11. Working(s)  BY <1>8, <1>9
<1>12. req'[s].op # "opendkim" => tables'.dkim = req'[s].lines
  <2>1. req[s].op = "vdomains" => tables.dkim = req[s].lines  BY <1>11 DEF DomainInv, LockHeld
  <2> QED  BY <2>1, <1>5, <1>8
<1>13. req'[s].op \in MapOps => tables'.virtual = req'[s].lines  BY <1>5, <1>8 DEF MapOps
<1>14. LockHeld'  BY <1>6, <1>10, <1>12, <1>13 DEF DomainInv, LockHeld
<1>15. LastChange'  BY <1>5, <1>6, <1>8, <1>10, <1>11 DEF DomainInv, LastChange
<1> QED  BY <1>7, <1>14, <1>15 DEF DomainInv

\* Everything is loaded, by the one that works or by a change of the settings.
LEMMA ReloadKeeps ==
    ASSUME DomainInv, part = "mailboxes", NEW s \in Slots, reload_mail_services(s)
    PROVE  DomainInv'
<1>1. MailTypes /\ tables \in [dkim : SUBSET Domains, virtual : SUBSET Domains]  BY DEF DomainInv, MailTypes
<1>2. req[s].op = "reload"  BY DEF reload_mail_services, At
<1>3. Handles(s, Idle)  BY <1>1, EndGoes DEF reload_mail_services
<1>4. /\ loaded' = tables /\ lock' = IF lock = s THEN Free ELSE lock
      /\ UNCHANGED <<production, row, userdb, mapVars, domain, tables, torn, cut>>
  BY DEF reload_mail_services
<1>5. MailTypes'  BY <1>1, <1>3, <1>4, MailRequestStep DEF MailTypes, Handles, mapVars
<1>6. /\ req'[s] = Idle /\ \A t \in Slots \ {s} : req'[t] = req[t]
      /\ \A t \in Slots : /\ Waiting(t) <=> Waits(req[t])
                          /\ Working(t) <=> Works(req[t])
                          /\ Waiting(t)' <=> Waits(req'[t])
                          /\ Working(t)' <=> Works(req'[t])
  BY <1>1, <1>3, MailRequestStep
<1>7. ~Waits(req[s])  BY <1>2 DEF Waits
<1>8. \A t \in Slots : (Waiting(t)' <=> Waiting(t)) /\ (Working(t)' <=> Working(t) /\ t # s)
  BY <1>6, <1>7, MailOps
<1>9. LockHeld'
  <2>1. CASE lock = s  BY <2>1, <1>4, <1>6, <1>8 DEF DomainInv, LockHeld
  <2>2. CASE lock # s
    <3>1. lock' = lock /\ ~Working(s)  BY <2>2, <1>4 DEF DomainInv, LockHeld
    <3> QED  BY <3>1, <1>4, <1>6, <1>8 DEF DomainInv, LockHeld
  <2> QED  BY <2>1, <2>2
<1>10. LastChange'
  <2>1. CASE Working(s) /\ req[s].lines = domain
    <3>1. tables.dkim = domain /\ tables.virtual = domain  BY <2>1, <1>2 DEF DomainInv, LockHeld, MapOps
    <3>2. tables = [dkim |-> domain, virtual |-> domain]  BY <3>1, <1>1
    <3>3. \A t \in Slots : ~Working(t)'  BY <2>1, <1>8 DEF DomainInv, LockHeld
    <3> QED  BY <3>2, <3>3, <1>4 DEF LastChange
  <2>2. CASE ~(Working(s) /\ req[s].lines = domain)
    BY <2>2, <1>4, <1>6, <1>8 DEF DomainInv, LastChange
  <2> QED  BY <2>1, <2>2
<1> QED  BY <1>5, <1>9, <1>10 DEF DomainInv

LEMMA DomainsRestartKeep == DomainInv /\ Restart => DomainInv'
<1> SUFFICES ASSUME DomainInv, Restart PROVE DomainInv'  OBVIOUS
<1> DEFINE hit == {s \in Slots : part = "mailboxes" /\ req[s] # Idle}
<1>1. /\ req' = [s \in Slots |-> Idle] /\ part' = part /\ lock' = Free
      /\ cut' = (cut \/ \E s \in hit : req[s].name \in Domains) /\ torn' = torn \cup {req[s].box : s \in hit}
      /\ vmap' \in {vmap, MailboxMaps.boxes}
      /\ UNCHANGED <<production, row, userdb, domain, tables, loaded>>
  BY DEF Restart, RestartMailboxes, mapVars
<1>2. MailTypes  BY DEF DomainInv
<1>3. \A s \in hit : req[s] \in MailForm /\ Fits(req[s])  BY <1>2 DEF MailTypes, MailRequest
<1>4. MailboxMaps.boxes \in SUBSET Boxes  BY DEF MailboxMaps, Active
<1>5. \A s \in hit : req[s].box \in Boxes  BY <1>3 DEF MailForm
<1>6. torn' \in SUBSET Boxes  BY <1>1, <1>2, <1>5 DEF MailTypes
<1>7. MailTypes'  BY <1>1, <1>2, <1>4, <1>6, MailOps DEF MailTypes
<1>8. \A s \in Slots : ~Working(s)'  BY <1>1, MailOps DEF Working
<1>9. LockHeld'  BY <1>1, <1>8 DEF LockHeld
<1>10. ASSUME NEW s \in Slots, Waiting(s) \/ Working(s) PROVE cut'
  <2>1. s \in hit  BY <1>10, MailOps DEF Waiting, Working
  <2>2. req[s].name \in Domains  BY <2>1, <1>3, <1>10 DEF Waiting, Working, Waits, Works, Fits, DomainOps
  <2> QED  BY <2>1, <2>2, <1>1
<1>11. LastChange'  BY <1>1, <1>8, <1>10 DEF DomainInv, LastChange
<1> QED  BY <1>7, <1>9, <1>11 DEF DomainInv

LEMMA DomainsElsewhereKeep ==
    ASSUME DomainInv, part' = part, UNCHANGED mailboxVars, part # "mailboxes" \/ UNCHANGED req
    PROVE  DomainInv'
<1>1. \A s \in Slots : (Working(s)' <=> Working(s)) /\ (Waiting(s)' <=> Waiting(s))  BY DEF Working, Waiting
<1>2. \A s \in Slots : Working(s) => req' = req  BY DEF Working
<1>3. MailTypes'  BY DEF DomainInv, MailTypes, mailboxVars
<1>4. LockHeld'  BY <1>1, <1>2 DEF DomainInv, LockHeld, mailboxVars
<1>5. LastChange'  BY <1>1, <1>2 DEF DomainInv, LastChange, mailboxVars
<1> QED  BY <1>3, <1>4, <1>5 DEF DomainInv

LEMMA DomainsNext == DomainInv /\ [Next]_vars => DomainInv'
<1> SUFFICES ASSUME DomainInv, [Next]_vars PROVE DomainInv'  OBVIOUS
<1>1. CASE Only("mailboxes") /\ MailboxesStep
  <2>1. part = "mailboxes" /\ MailTypes  BY <1>1 DEF Only, DomainInv
  <2>2. ASSUME NEW s \in Slots, MailboxStep(s) PROVE DomainInv'
    <3>1. CASE \/ \E u \in Users, b \in Boxes : create_new_mailbox(s, u, b) \/ delete_existing_mailbox(s, u, b)
               \/ \E ok \in BOOLEAN : update_server_settings(s, ok)
               \/ \E d \in Domains : create_domain(s, d) \/ remove_domain(s, d)
      BY <2>1, <3>1, MailRequestsBegin, BeginsKeepDomains
    <3>2. CASE \/ create_mailbox(s) \/ undo_create(s) \/ delete_mailbox(s) \/ remove_from_dovecot_users(s)
               \/ \E n \in 0..3 : provision_system_mailbox(s, n)
               \/ \E ok \in BOOLEAN : ReadUsersFile(s, ok)
      BY <2>1, <3>2, CreateStepsKeepDomains
    <3>3. CASE \/ ReadMailboxRows(s) \/ rebuild_postfix_virtual_mailboxes(s) \/ add_domain(s) \/ ReadDomains(s)
               \/ rebuild_opendkim_tables(s) \/ rebuild_postfix_virtual_domains(s) \/ reload_mail_services(s)
      BY <2>1, <3>3, MapStepsKeepDomains, AddDomainKeeps, LockStepKeeps, WriteStepsKeep, ReloadKeeps
    <3> QED  BY <2>2, <3>1, <3>2, <3>3 DEF MailboxStep
  <2> QED  BY <1>1, <2>2, QuietStepsKeepDomains DEF MailboxesStep
<1>2. CASE Restart  BY <1>2, DomainsRestartKeep
<1>3. CASE ~(Only("mailboxes") /\ MailboxesStep) /\ Next /\ ~Restart
  <2>1. part # "mailboxes" /\ UNCHANGED mailboxVars  BY <1>3 DEF Next, Only
  <2> QED  BY <2>1, <1>3, SamePart, DomainsElsewhereKeep
<1>4. CASE UNCHANGED vars
  <2>1. part' = part /\ UNCHANGED req /\ UNCHANGED mailboxVars  BY <1>4 DEF vars, requestVars
  <2> QED  BY <2>1, DomainsElsewhereKeep
<1> QED  BY <1>1, <1>2, <1>3, <1>4 DEF Next

LEMMA DomainsCurrent == DomainInv => DomainConfigCurrent
<1> SUFFICES ASSUME DomainInv PROVE DomainConfigCurrent  OBVIOUS
<1>1. CASE \E s \in Slots : Waiting(s) \/ Working(s)
  <2>1. PICK s \in Slots : Waiting(s) \/ Working(s)  BY <1>1
  <2>2. part = "mailboxes" /\ req[s].op # "idle"  BY <2>1 DEF Waiting, Working, Waits, Works, MapOps
  <2>3. req[s].name \in Domains
    BY <2>1, <2>2, InMailForm DEF DomainInv, Waiting, Working, Waits, Works, Fits, DomainOps
  <2>4. req[s] # Idle  BY <2>2, MailOps
  <2> QED  BY <2>2, <2>3, <2>4 DEF DomainConfigCurrent
<1>2. CASE ~\E s \in Slots : Waiting(s) \/ Working(s)
  BY <1>2 DEF DomainInv, LastChange, DomainConfigCurrent
<1> QED  BY <1>1, <1>2

\* With no request under way the domains that are signed for and accepted, the aliases,
\* the tunnels and the certificate on disk are those of the tables, also after a restart.
THEOREM FilesAlwaysCurrent == Spec => []FilesCurrent
<1>1. DomainInv /\ FileInv => FilesCurrent  BY DomainsCurrent, FilesRendered DEF FilesCurrent
<1> QED  BY DomainsStart, DomainsNext, FilesStart, FilesNext, <1>1, PTL DEF Spec

-----------------------------------------------------------------------------
(* Mailboxes: the inductive invariant.                                     *)

\* Rows as they should be, also under requests at the same time.
RowsSane == \A b \in Boxes : row[b].active => row[b].exists

OneAtATime ==
    part = "mailboxes" /\ ~overlap => \A s, t \in Slots : req[s] # Idle /\ req[t] # Idle => s = t
TornByOverlap == part = "mailboxes" /\ (\E b \in Boxes : b \notin torn) => ~overlap

Counted(u) == u # Admin \/ production
QuotaHeld ==
    (part = "mailboxes" /\ overlap) \/
        \A u \in Users : Counted(u) => IsFiniteSet(Owned(u)) /\ Cardinality(Owned(u)) <= MaxMailboxes

\* What was read for the maps is still so.
MapsRead(boxes) == \A x \in Boxes : (x \in boxes => row[x].active) /\ (row[x].active /\ ~row[x].catchall => x \in boxes)

\* What a handler that is alone knows of the rows, the users file and the maps.
Knows(r) ==
    LET b == r.box  u == r.user  c == r.seen
    IN  /\ r.op = "create" =>
              /\ c.exists => row[b].exists /\ row[b].active = c.active /\ (c.owner # Nobody => row[b].owner = c.owner)
              /\ Counted(u) => Cardinality(Owned(u)) < MaxMailboxes
        /\ r.op \in {"provision", "undo"} =>
              row[b].active /\ (b \notin torn /\ ~c.exists => b \notin userdb /\ (production => b \notin vmap))
        /\ r.op = "delete" => row[b].exists
        /\ r.op \in {"unlist", "relist"} => row[b].exists /\ ~row[b].active
        /\ r.op = "relist" => r.lines = userdb \ {b}
        /\ r.op = "rendered" => MapsRead(c.boxes)
Known == part = "mailboxes" /\ ~overlap => \A s \in Slots : Knows(req[s])

\* A mailbox is in the users file and in the maps, or the request that will see to it is
\* under way.
LoginOK(b) == (b \in userdb => row[b].active) /\ (row[b].active /\ ~row[b].catchall => b \in userdb)
MapOK(b) == (b \in vmap => row[b].active) /\ (row[b].active /\ ~row[b].catchall => b \in vmap)
Changing(r, b) == r.op \in {"provision", "undo", "unlist", "relist"} /\ r.box = b
Mapping(r) == r.op \in {"render", "rendered"}
LoginKept ==
    \A b \in Boxes \ torn : LoginOK(b) \/ (part = "mailboxes" /\ \E s \in Slots : Changing(req[s], b))
MapKept ==
    production => \A b \in Boxes \ torn : MapOK(b) \/ (part = "mailboxes" /\ \E s \in Slots : Changing(req[s], b) \/ Mapping(req[s]))

MailInv == RowsSane /\ OneAtATime /\ TornByOverlap /\ QuotaHeld /\ Known /\ LoginKept /\ MapKept

-----------------------------------------------------------------------------
(* Mailboxes: the proof.                                                   *)

LEMMA MailStart == Init => MailInv
<1> SUFFICES ASSUME Init PROVE MailInv  OBVIOUS
<1>1. MailboxesInit /\ req = [s \in Slots |-> Idle] /\ overlap = FALSE /\ MailTypes
  BY DomainsStart DEF Init, RequestsInit, DomainInv
<1>2. PICK b \in Boxes, o \in {Admin, Nobody} :
          /\ row = [x \in Boxes |-> IF x = b THEN Row(o, FALSE) ELSE NoRow]
          /\ userdb = {b} /\ vmap = {b}
  BY <1>1 DEF MailboxesInit
<1>3. \A x \in Boxes : /\ row[x].exists <=> x = b
                       /\ row[x].active <=> x = b
                       /\ ~row[x].catchall
                       /\ row[x].owner = IF x = b THEN o ELSE Nobody
  BY <1>2, RowsTyped
<1>4. \A s \in Slots : req[s] = Idle /\ req[s].op = "idle"  BY <1>1, MailOps
<1>5. RowsSane /\ OneAtATime /\ TornByOverlap  BY <1>1, <1>3, <1>4 DEF RowsSane, OneAtATime, TornByOverlap
<1>6. QuotaHeld
  <2> SUFFICES ASSUME NEW u \in Users PROVE IsFiniteSet(Owned(u)) /\ Cardinality(Owned(u)) <= MaxMailboxes
    BY DEF QuotaHeld
  <2>1. Owned(u) \subseteq {b}  BY <1>3 DEF Owned, Active
  <2>2. IsFiniteSet({b}) /\ Cardinality({b}) = 1  BY FS_Singleton
  <2>3. IsFiniteSet(Owned(u)) /\ Cardinality(Owned(u)) <= 1  BY <2>1, <2>2, FS_Subset
  <2>4. Cardinality(Owned(u)) \in Nat  BY <2>3, FS_CardinalityType
  <2> QED  BY <2>3, <2>4, MailboxesAssumption
<1>7. Known  BY <1>4 DEF Known, Knows
<1>8. \A x \in Boxes : LoginOK(x) /\ MapOK(x)  BY <1>2, <1>3 DEF LoginOK, MapOK
<1> QED  BY <1>5, <1>6, <1>7, <1>8 DEF MailInv, LoginKept, MapKept

\* Whose boxes count.
LEMMA OwnedShrinks ==
    ASSUME NEW u, IsFiniteSet(Owned(u)), Cardinality(Owned(u)) <= MaxMailboxes, Owned(u)' \subseteq Owned(u)
    PROVE  IsFiniteSet(Owned(u)') /\ Cardinality(Owned(u)') <= MaxMailboxes
<1>1. IsFiniteSet(Owned(u)') /\ Cardinality(Owned(u)') <= Cardinality(Owned(u))  BY FS_Subset
<1>2. Cardinality(Owned(u)') \in Nat /\ Cardinality(Owned(u)) \in Nat  BY <1>1, FS_CardinalityType
<1> QED  BY <1>1, <1>2, MailboxesAssumption

LEMMA OwnedGrows ==
    ASSUME NEW u, NEW b, IsFiniteSet(Owned(u)), Cardinality(Owned(u)) < MaxMailboxes, Owned(u)' \subseteq Owned(u) \cup {b}
    PROVE  IsFiniteSet(Owned(u)') /\ Cardinality(Owned(u)') <= MaxMailboxes
<1>1. /\ IsFiniteSet(Owned(u) \cup {b})
      /\ Cardinality(Owned(u) \cup {b}) = IF b \in Owned(u) THEN Cardinality(Owned(u)) ELSE Cardinality(Owned(u)) + 1
  BY FS_AddElement
<1>2. IsFiniteSet(Owned(u)') /\ Cardinality(Owned(u)') <= Cardinality(Owned(u) \cup {b})  BY <1>1, FS_Subset
<1>3. Cardinality(Owned(u)') \in Nat /\ Cardinality(Owned(u)) \in Nat  BY <1>2, FS_CardinalityType
<1> QED  BY <1>1, <1>2, <1>3, MailboxesAssumption

\* A step of a request in flight only has to be right when nothing else is in flight.
LEMMA AloneSteps ==
    ASSUME MailTypes, MailInv, NEW s, NEW r, Handles(s, r), overlap' = overlap, torn \subseteq torn', req[s] # Idle, RowsSane',
           production' = production,
           ASSUME ~overlap, Knows(req[s]), \A t \in Slots \ {s} : req[t] = Idle,
                  \A u \in Users : Counted(u) => IsFiniteSet(Owned(u)) /\ Cardinality(Owned(u)) <= MaxMailboxes
           PROVE  /\ Knows(r)'
                  /\ \A u \in Users : Counted(u) => IsFiniteSet(Owned(u)') /\ Cardinality(Owned(u)') <= MaxMailboxes
                  /\ \A b \in Boxes : b \notin torn' /\ (LoginOK(b) \/ Changing(req[s], b)) => LoginOK(b)' \/ Changing(r, b)
                  /\ production => \A b \in Boxes :
                        b \notin torn' /\ (MapOK(b) \/ Changing(req[s], b) \/ Mapping(req[s])) => MapOK(b)' \/ Changing(r, b) \/ Mapping(r)
    PROVE  MailInv'
<1>1. /\ part = "mailboxes" /\ part' = part /\ s \in Slots
      /\ req'[s] = r /\ \A t \in Slots \ {s} : req'[t] = req[t]
  BY MailRequestStep DEF Handles
<1>2. TornByOverlap'  BY <1>1 DEF MailInv, TornByOverlap
<1>3. CASE overlap
  <2>1. \A b \in Boxes : b \in torn /\ b \in torn'  BY <1>1, <1>3 DEF MailInv, TornByOverlap
  <2>2. OneAtATime' /\ QuotaHeld' /\ Known'  BY <1>1, <1>3 DEF OneAtATime, QuotaHeld, Known
  <2>3. LoginKept' /\ MapKept'  BY <2>1 DEF LoginKept, MapKept
  <2> QED  BY <1>2, <2>2, <2>3 DEF MailInv
<1>4. CASE ~overlap
  <2>1. \A t \in Slots \ {s} : req[t] = Idle /\ req'[t] = Idle  BY <1>1, <1>4 DEF MailInv, OneAtATime
  <2>2. Knows(req[s])  BY <1>1, <1>4 DEF MailInv, Known
  <2>3. \A u \in Users : Counted(u) => IsFiniteSet(Owned(u)) /\ Cardinality(Owned(u)) <= MaxMailboxes
    BY <1>4 DEF MailInv, QuotaHeld
  <2>4. /\ Knows(r)'
        /\ \A u \in Users : Counted(u) => IsFiniteSet(Owned(u)') /\ Cardinality(Owned(u)') <= MaxMailboxes
        /\ \A b \in Boxes : b \notin torn' /\ (LoginOK(b) \/ Changing(req[s], b)) => LoginOK(b)' \/ Changing(r, b)
        /\ production => \A b \in Boxes :
              b \notin torn' /\ (MapOK(b) \/ Changing(req[s], b) \/ Mapping(req[s])) => MapOK(b)' \/ Changing(r, b) \/ Mapping(r)
    BY <1>4, <2>1, <2>2, <2>3
  <2>5. OneAtATime'  BY <1>1, <2>1 DEF OneAtATime
  <2>6. QuotaHeld'  BY <1>1, <2>4 DEF QuotaHeld, Counted
  <2>7. Idle.op = "idle"  BY MailOps
  <2>8. Known'
    <3> SUFFICES ASSUME NEW t \in Slots PROVE Knows(req[t])'  BY DEF Known
    <3>1. CASE t = s  BY <3>1, <1>1, <2>4 DEF Knows
    <3>2. CASE t # s
      <4>1. req'[t].op = "idle"  BY <3>2, <2>1, <2>7
      <4> QED  BY <4>1 DEF Knows
    <3> QED  BY <3>1, <3>2
  <2>9. \A t \in Slots \ {s}, b \in Boxes : ~Changing(req[t], b) /\ ~Mapping(req[t])  BY <2>1, <2>7 DEF Changing, Mapping
  <2>10. LoginKept'
    <3> SUFFICES ASSUME NEW b \in Boxes, b \notin torn' PROVE LoginOK(b)' \/ (part = "mailboxes" /\ Changing(r, b))
      BY <1>1 DEF LoginKept, Changing
    <3>1. LoginOK(b) \/ Changing(req[s], b)  BY <2>9 DEF MailInv, LoginKept
    <3> QED  BY <3>1, <2>4, <1>1
  <2>11. MapKept'
    <3> SUFFICES ASSUME NEW b \in Boxes, b \notin torn', production
                 PROVE  MapOK(b)' \/ (part = "mailboxes" /\ (Changing(r, b) \/ Mapping(r)))
      BY <1>1 DEF MapKept, Changing, Mapping
    <3>1. MapOK(b) \/ Changing(req[s], b) \/ Mapping(req[s])  BY <2>9 DEF MailInv, MapKept
    <3> QED  BY <3>1, <2>4, <1>1
  <2> QED  BY <1>2, <2>5, <2>6, <2>8, <2>10, <2>11 DEF MailInv
<1> QED  BY <1>3, <1>4

\* Rows as they were have their owners as they were.
LEMMA OwnedStays ==
    ASSUME NEW u, row' = row
    PROVE  Owned(u)' = Owned(u)
BY DEF Owned, Active

LEMMA CreateKeepsMail ==
    ASSUME MailTypes, MailInv, part = "mailboxes", NEW s \in Slots, create_mailbox(s)
    PROVE  MailInv'
<1>1. PICK r \in MailRequest : Creates(s, r)  BY CreateGoes
<1>2. UNCHANGED <<production, userdb, vmap, torn>>  BY DEF create_mailbox, mapVars
<1>3. Handles(s, r) /\ overlap' = overlap /\ req[s].op = "create" /\ req[s] # Idle  BY <1>1, MailOps DEF Creates
<1> DEFINE b == req[s].box  u == req[s].user  c == req[s].seen
<1>4. b \in Boxes /\ u \in Users /\ c \in RowSet /\ u # Nobody  BY <1>1, NobodyAssumption DEF Creates
<1>5. CASE r = Idle
  <2>1. row' = row  BY <1>1, <1>5, MailOps DEF Creates, Same
  <2>2. RowsSane'  BY <2>1 DEF MailInv, RowsSane
  <2>3. ASSUME ~overlap, Knows(req[s]), \A t \in Slots \ {s} : req[t] = Idle,
               \A v \in Users : Counted(v) => IsFiniteSet(Owned(v)) /\ Cardinality(Owned(v)) <= MaxMailboxes
        PROVE  /\ Knows(r)'
               /\ \A v \in Users : Counted(v) => IsFiniteSet(Owned(v)') /\ Cardinality(Owned(v)') <= MaxMailboxes
               /\ \A x \in Boxes : x \notin torn' /\ (LoginOK(x) \/ Changing(req[s], x)) => LoginOK(x)' \/ Changing(r, x)
               /\ production => \A x \in Boxes :
                     x \notin torn' /\ (MapOK(x) \/ Changing(req[s], x) \/ Mapping(req[s])) => MapOK(x)' \/ Changing(r, x) \/ Mapping(r)
    <3>1. Knows(r)'  BY <1>5, MailOps DEF Knows
    <3>2. \A v \in Users : Owned(v)' = Owned(v)  BY <2>1, OwnedStays
    <3>3. \A x \in Boxes : (LoginOK(x) => LoginOK(x)') /\ (MapOK(x) => MapOK(x)')
      BY <1>2, <2>1 DEF LoginOK, MapOK
    <3>4. \A x \in Boxes : ~Changing(req[s], x) /\ ~Mapping(req[s])  BY <1>3 DEF Changing, Mapping
    <3> QED  BY <2>3, <3>1, <3>2, <3>3, <3>4
  <2> QED  BY <1>2, <1>3, <2>2, <2>3, AloneSteps
<1>6. CASE r # Idle
  <2>1. /\ \A x \in Boxes \ {b} : row'[x] = row[x]
        /\ row'[b].exists = TRUE
        /\ row'[b].active = IF c.exists /\ c.active THEN row[b].active ELSE TRUE
        /\ row'[b].owner = IF c.exists /\ c.owner = u THEN row[b].owner ELSE u
    BY <1>1, <1>6, CreatedRow
  <2>2. r.op = "provision" /\ r.box = b /\ r.seen = c /\ c.exists = row[b].exists
    BY <1>1, <1>6 DEF Creates, Same
  <2> HIDE DEF b, c, u
  <2>3. RowsSane'  BY <2>1 DEF MailInv, RowsSane
  <2>4. ASSUME ~overlap, Knows(req[s]), \A t \in Slots \ {s} : req[t] = Idle,
               \A v \in Users : Counted(v) => IsFiniteSet(Owned(v)) /\ Cardinality(Owned(v)) <= MaxMailboxes
        PROVE  /\ Knows(r)'
               /\ \A v \in Users : Counted(v) => IsFiniteSet(Owned(v)') /\ Cardinality(Owned(v)') <= MaxMailboxes
               /\ \A x \in Boxes : x \notin torn' /\ (LoginOK(x) \/ Changing(req[s], x)) => LoginOK(x)' \/ Changing(r, x)
               /\ production => \A x \in Boxes :
                     x \notin torn' /\ (MapOK(x) \/ Changing(req[s], x) \/ Mapping(req[s])) => MapOK(x)' \/ Changing(r, x) \/ Mapping(r)
    <3>1. /\ c.exists => row[b].exists /\ row[b].active = c.active /\ (c.owner # Nobody => row[b].owner = c.owner)
          /\ Counted(u) => Cardinality(Owned(u)) < MaxMailboxes
      BY <1>3, <2>4 DEF Knows, b, c, u
    <3>2. row'[b].active = TRUE /\ row'[b].owner = u  BY <1>4, <2>1, <3>1 DEF RowSet
    <3>3. \A t \in Slots, x \in Boxes : ~Changing(req[t], x) /\ ~Mapping(req[t])
      BY <1>3, <2>4, MailOps DEF Changing, Mapping
    <3>4. ASSUME b \notin torn, ~c.exists PROVE b \notin userdb /\ (production => b \notin vmap)
      <4>1. ~row[b].active  BY <1>4, <2>2, <3>4 DEF MailInv, RowsSane
      <4>2. LoginOK(b) /\ (production => MapOK(b))  BY <1>4, <3>3, <3>4 DEF MailInv, LoginKept, MapKept
      <4> QED  BY <4>1, <4>2 DEF LoginOK, MapOK
    <3>5. Knows(r)'  BY <1>2, <2>2, <3>2, <3>4 DEF Knows
    <3>6. ASSUME NEW v \in Users, Counted(v)
          PROVE  IsFiniteSet(Owned(v)') /\ Cardinality(Owned(v)') <= MaxMailboxes
      <4>1. CASE v = u
        <5>1. Owned(v)' \subseteq Owned(v) \cup {b}  BY <2>1 DEF Owned, Active
        <5>2. IsFiniteSet(Owned(v)) /\ Cardinality(Owned(v)) < MaxMailboxes  BY <4>1, <2>4, <3>1, <3>6
        <5> QED  BY <5>1, <5>2, OwnedGrows
      <4>2. CASE v # u
        <5>1. Owned(v)' \subseteq Owned(v)  BY <2>1, <3>2, <4>2 DEF Owned, Active
        <5> QED  BY <5>1, <2>4, <3>6, OwnedShrinks
      <4> QED  BY <4>1, <4>2
    <3>7. \A x \in Boxes \ {b} : (LoginOK(x) => LoginOK(x)') /\ (MapOK(x) => MapOK(x)')
      BY <1>2, <2>1 DEF LoginOK, MapOK
    <3>8. Changing(r, b)  BY <2>2 DEF Changing
    <3> QED  BY <1>3, <3>3, <3>5, <3>6, <3>7, <3>8 DEF Handles
  <2> QED  BY <1>2, <1>3, <2>3, <2>4, AloneSteps
<1> QED  BY <1>5, <1>6

\* Steps that leave the rows alone, and what the other steps have to show of one box.
LEMMA SameRows ==
    ASSUME MailInv, row' = row
    PROVE  /\ RowsSane'
           /\ \A u \in Users : Owned(u)' = Owned(u)
           /\ \A x : (row'[x] = row[x] /\ (x \in userdb' <=> x \in userdb) => (LoginOK(x) => LoginOK(x)'))
           /\ \A x : (row'[x] = row[x] /\ (x \in vmap' <=> x \in vmap) => (MapOK(x) => MapOK(x)'))
<1>1. RowsSane'  BY DEF MailInv, RowsSane
<1>2. \A u \in Users : Owned(u)' = Owned(u)  BY OwnedStays
<1> QED  BY <1>1, <1>2 DEF LoginOK, MapOK

LEMMA ProvisionKeepsMail ==
    ASSUME MailTypes, MailInv, part = "mailboxes", NEW s \in Slots, NEW n \in 0..3, provision_system_mailbox(s, n)
    PROVE  MailInv'
<1>1. /\ req[s].op = "provision" /\ req[s].box \in Boxes
      /\ \E r \in MailRequest :
            \/ Handles(s, r) /\ overlap' = overlap /\ r # Idle /\ r.op = "undo" /\ Same(r, req[s]) /\ userdb' = userdb /\ vmap' = vmap
            \/ ToMaps(s, r) /\ userdb' = userdb \cup {req[s].box} /\ vmap' \in {vmap, vmap \cup {req[s].box}}
  BY ProvisionGoes
<1>2. UNCHANGED <<production, row, torn>> /\ req[s] # Idle  BY <1>1, MailOps DEF provision_system_mailbox
<1>3. PICK b \in Boxes : b = req[s].box  BY <1>1
<1>4. PICK r \in MailRequest :
            \/ Handles(s, r) /\ overlap' = overlap /\ r # Idle /\ r.op = "undo" /\ Same(r, req[s]) /\ userdb' = userdb /\ vmap' = vmap
            \/ ToMaps(s, r) /\ userdb' = userdb \cup {b} /\ vmap' \in {vmap, vmap \cup {b}}
  BY <1>1, <1>3
<1>5. Handles(s, r) /\ overlap' = overlap  BY <1>4 DEF ToMaps
<1>6. RowsSane' /\ \A u \in Users : Owned(u)' = Owned(u)  BY <1>2, SameRows
<1>7. ASSUME ~overlap, Knows(req[s]), \A t \in Slots \ {s} : req[t] = Idle,
             \A v \in Users : Counted(v) => IsFiniteSet(Owned(v)) /\ Cardinality(Owned(v)) <= MaxMailboxes
      PROVE  /\ Knows(r)'
             /\ \A v \in Users : Counted(v) => IsFiniteSet(Owned(v)') /\ Cardinality(Owned(v)') <= MaxMailboxes
             /\ \A x \in Boxes : x \notin torn' /\ (LoginOK(x) \/ Changing(req[s], x)) => LoginOK(x)' \/ Changing(r, x)
             /\ production => \A x \in Boxes :
                   x \notin torn' /\ (MapOK(x) \/ Changing(req[s], x) \/ Mapping(req[s])) => MapOK(x)' \/ Changing(r, x) \/ Mapping(r)
  <2>1. /\ row[b].active
        /\ b \notin torn /\ ~req[s].seen.exists => b \notin userdb /\ (production => b \notin vmap)
    BY <1>1, <1>3, <1>7 DEF Knows
  <2>2. \A x \in Boxes : ~Mapping(req[s]) /\ (Changing(req[s], x) <=> x = b)
    BY <1>1, <1>3 DEF Changing, Mapping
  <2>3. \A v \in Users : Counted(v) => IsFiniteSet(Owned(v)') /\ Cardinality(Owned(v)') <= MaxMailboxes
    BY <1>6, <1>7
  <2>4. \A x \in Boxes \ {b} : (LoginOK(x) => LoginOK(x)') /\ (MapOK(x) => MapOK(x)')
    BY <1>2, <1>4 DEF LoginOK, MapOK
  <2>5. CASE r.op = "undo" /\ Same(r, req[s]) /\ userdb' = userdb /\ vmap' = vmap
    <3>1. Knows(r)'  BY <1>2, <1>3, <2>1, <2>5 DEF Knows, Same
    <3>2. Changing(r, b)  BY <1>3, <2>5 DEF Changing, Same
    <3> QED  BY <2>2, <2>3, <2>4, <3>1, <3>2
  <2>6. CASE ToMaps(s, r) /\ userdb' = userdb \cup {b}
    <3>1. LoginOK(b)'  BY <1>2, <2>1, <2>6 DEF LoginOK
    <3>2. Knows(r)'  BY <2>6, MailOps DEF Knows, ToMaps
    <3>3. production => Mapping(r)  BY <2>6 DEF ToMaps, Mapping
    <3> QED  BY <2>2, <2>3, <2>4, <3>1, <3>2, <3>3
  <2> QED  BY <1>4, <2>5, <2>6
<1> QED  BY <1>2, <1>5, <1>6, <1>7, AloneSteps

LEMMA UndoKeepsMail ==
    ASSUME MailTypes, MailInv, part = "mailboxes", NEW s \in Slots, undo_create(s)
    PROVE  MailInv'
<1>1. Handles(s, Idle) /\ overlap' = overlap /\ req[s].op = "undo" /\ req[s].box \in Boxes /\ req[s] # Idle
  BY UndoGoes, MailOps
<1>2. PICK b \in Boxes : b = req[s].box  BY <1>1
<1>3. /\ UNCHANGED <<production, userdb, vmap>>
      /\ row' = IF req[s].seen.exists THEN Activated(b, FALSE) ELSE [row EXCEPT ![b] = NoRow]
      /\ torn' = torn \cup (IF req[s].seen.exists THEN {b} ELSE {})
  BY <1>2 DEF undo_create, mapVars, Activated
<1>4. (\A x \in Boxes \ {b} : row'[x] = row[x]) /\ ~row'[b].active
  <2>1. CASE req[s].seen.exists  BY <2>1, <1>3, RowActivated
  <2>2. CASE ~req[s].seen.exists
    <3>1. row' = [row EXCEPT ![b] = NoRow] /\ NoRow \in RowSet /\ NoRow.active = FALSE  BY <2>2, <1>3, RowsTyped
    <3> QED  BY <3>1, RowMade
  <2> QED  BY <2>1, <2>2
<1>5. RowsSane'  BY <1>4 DEF MailInv, RowsSane
<1>6. ASSUME ~overlap, Knows(req[s]), \A t \in Slots \ {s} : req[t] = Idle,
             \A v \in Users : Counted(v) => IsFiniteSet(Owned(v)) /\ Cardinality(Owned(v)) <= MaxMailboxes
      PROVE  /\ Knows(Idle)'
             /\ \A v \in Users : Counted(v) => IsFiniteSet(Owned(v)') /\ Cardinality(Owned(v)') <= MaxMailboxes
             /\ \A x \in Boxes : x \notin torn' /\ (LoginOK(x) \/ Changing(req[s], x)) => LoginOK(x)' \/ Changing(Idle, x)
             /\ production => \A x \in Boxes :
                   x \notin torn' /\ (MapOK(x) \/ Changing(req[s], x) \/ Mapping(req[s])) => MapOK(x)' \/ Changing(Idle, x) \/ Mapping(Idle)
  <2>1. b \notin torn /\ ~req[s].seen.exists => b \notin userdb /\ (production => b \notin vmap)
    BY <1>1, <1>2, <1>6 DEF Knows
  <2>2. \A x \in Boxes : ~Mapping(req[s]) /\ (Changing(req[s], x) <=> x = b)
    BY <1>1, <1>2 DEF Changing, Mapping
  <2>3. \A v \in Users : Owned(v)' \subseteq Owned(v)  BY <1>4 DEF Owned, Active
  <2>4. \A v \in Users : Counted(v) => IsFiniteSet(Owned(v)') /\ Cardinality(Owned(v)') <= MaxMailboxes
    BY <1>6, <2>3, OwnedShrinks
  <2>5. \A x \in Boxes \ {b} : (LoginOK(x) => LoginOK(x)') /\ (MapOK(x) => MapOK(x)')
    BY <1>3, <1>4 DEF LoginOK, MapOK
  <2>6. b \notin torn' => LoginOK(b)' /\ (production => MapOK(b)')
    BY <1>3, <1>4, <2>1 DEF LoginOK, MapOK
  <2>7. Knows(Idle)'  BY MailOps DEF Knows
  <2> QED  BY <1>3, <2>2, <2>4, <2>5, <2>6, <2>7
<1> QED  BY <1>1, <1>3, <1>5, <1>6, AloneSteps

LEMMA DeleteKeepsMail ==
    ASSUME MailTypes, MailInv, part = "mailboxes", NEW s \in Slots, delete_mailbox(s)
    PROVE  MailInv'
<1>1. /\ req[s].op = "delete" /\ req[s].box \in Boxes /\ req[s] # Idle
      /\ \E r \in MailRequest : Handles(s, r) /\ r # Idle /\ r.op = "unlist" /\ Same(r, req[s]) /\ overlap' = overlap
  BY DeleteGoes, MailOps
<1>2. PICK b \in Boxes : b = req[s].box  BY <1>1
<1>3. PICK r \in MailRequest : Handles(s, r) /\ r.op = "unlist" /\ r.box = b /\ overlap' = overlap
  BY <1>1, <1>2 DEF Same
<1>4. /\ UNCHANGED <<production, userdb, vmap, torn>>
      /\ row' = IF row[b].exists THEN Activated(b, FALSE) ELSE row
  BY <1>2 DEF delete_mailbox, mapVars, Activated
<1>5. /\ \A x \in Boxes \ {b} : row'[x] = row[x]
      /\ row'[b].exists = row[b].exists
      /\ row[b].exists => ~row'[b].active
  BY <1>4, RowActivated
<1>6. RowsSane'  BY <1>4, <1>5 DEF MailInv, RowsSane
<1>7. ASSUME ~overlap, Knows(req[s]), \A t \in Slots \ {s} : req[t] = Idle,
             \A v \in Users : Counted(v) => IsFiniteSet(Owned(v)) /\ Cardinality(Owned(v)) <= MaxMailboxes
      PROVE  /\ Knows(r)'
             /\ \A v \in Users : Counted(v) => IsFiniteSet(Owned(v)') /\ Cardinality(Owned(v)') <= MaxMailboxes
             /\ \A x \in Boxes : x \notin torn' /\ (LoginOK(x) \/ Changing(req[s], x)) => LoginOK(x)' \/ Changing(r, x)
             /\ production => \A x \in Boxes :
                   x \notin torn' /\ (MapOK(x) \/ Changing(req[s], x) \/ Mapping(req[s])) => MapOK(x)' \/ Changing(r, x) \/ Mapping(r)
  <2>1. row[b].exists  BY <1>1, <1>2, <1>7 DEF Knows
  <2>2. Knows(r)'  BY <1>3, <1>5, <2>1 DEF Knows
  <2>3. \A x \in Boxes : ~Mapping(req[s]) /\ ~Changing(req[s], x)  BY <1>1 DEF Changing, Mapping
  <2>4. \A v \in Users : Owned(v)' \subseteq Owned(v)  BY <1>5, <2>1 DEF Owned, Active
  <2>5. \A v \in Users : Counted(v) => IsFiniteSet(Owned(v)') /\ Cardinality(Owned(v)') <= MaxMailboxes
    BY <1>7, <2>4, OwnedShrinks
  <2>6. \A x \in Boxes \ {b} : (LoginOK(x) => LoginOK(x)') /\ (MapOK(x) => MapOK(x)')
    BY <1>4, <1>5 DEF LoginOK, MapOK
  <2>7. Changing(r, b)  BY <1>3 DEF Changing
  <2> QED  BY <2>2, <2>3, <2>5, <2>6, <2>7
<1> QED  BY <1>1, <1>3, <1>4, <1>6, <1>7, AloneSteps

LEMMA UnlistKeepsMail ==
    ASSUME MailTypes, MailInv, part = "mailboxes", NEW s \in Slots, NEW ok \in BOOLEAN, ReadUsersFile(s, ok)
    PROVE  MailInv'
<1>1. /\ req[s].op = "unlist" /\ req[s].box \in Boxes /\ req[s] # Idle
      /\ \E r \in MailRequest : \/ Reads(s, r) /\ torn' = torn
                                \/ ToMaps(s, r) /\ torn' = torn \cup {req[s].box}
  BY UnlistGoes, MailOps
<1>2. PICK b \in Boxes : b = req[s].box  BY <1>1
<1>3. PICK r \in MailRequest : \/ Reads(s, r) /\ torn' = torn
                               \/ ToMaps(s, r) /\ torn' = torn \cup {b}
  BY <1>1, <1>2
<1>4. UNCHANGED <<production, row, userdb, vmap>>  BY DEF ReadUsersFile, mapVars
<1>5. Handles(s, r) /\ overlap' = overlap /\ torn \subseteq torn'  BY <1>3 DEF ToMaps, Reads
<1>6. RowsSane' /\ \A u \in Users : Owned(u)' = Owned(u)  BY <1>4, SameRows
<1>7. ASSUME ~overlap, Knows(req[s]), \A t \in Slots \ {s} : req[t] = Idle,
             \A v \in Users : Counted(v) => IsFiniteSet(Owned(v)) /\ Cardinality(Owned(v)) <= MaxMailboxes
      PROVE  /\ Knows(r)'
             /\ \A v \in Users : Counted(v) => IsFiniteSet(Owned(v)') /\ Cardinality(Owned(v)') <= MaxMailboxes
             /\ \A x \in Boxes : x \notin torn' /\ (LoginOK(x) \/ Changing(req[s], x)) => LoginOK(x)' \/ Changing(r, x)
             /\ production => \A x \in Boxes :
                   x \notin torn' /\ (MapOK(x) \/ Changing(req[s], x) \/ Mapping(req[s])) => MapOK(x)' \/ Changing(r, x) \/ Mapping(r)
  <2>1. row[b].exists /\ ~row[b].active  BY <1>1, <1>2, <1>7 DEF Knows
  <2>2. \A x \in Boxes : ~Mapping(req[s]) /\ (Changing(req[s], x) <=> x = b)
    BY <1>1, <1>2 DEF Changing, Mapping
  <2>3. \A v \in Users : Counted(v) => IsFiniteSet(Owned(v)') /\ Cardinality(Owned(v)') <= MaxMailboxes
    BY <1>6, <1>7
  <2>4. \A x \in Boxes : (LoginOK(x) => LoginOK(x)') /\ (MapOK(x) => MapOK(x)')
    BY <1>4 DEF LoginOK, MapOK
  <2>5. CASE Reads(s, r)
    <3>1. Knows(r)'  BY <1>2, <1>4, <2>1, <2>5 DEF Knows, Reads
    <3>2. Changing(r, b)  BY <1>2, <2>5 DEF Changing, Reads
    <3> QED  BY <2>2, <2>3, <2>4, <3>1, <3>2
  <2>6. CASE ToMaps(s, r) /\ torn' = torn \cup {b}
    <3>1. Knows(r)'  BY <2>6, MailOps DEF Knows, ToMaps
    <3>2. production => Mapping(r)  BY <2>6 DEF ToMaps, Mapping
    <3> QED  BY <2>2, <2>3, <2>4, <2>6, <3>1, <3>2
  <2> QED  BY <1>3, <2>5, <2>6
<1> QED  BY <1>1, <1>4, <1>5, <1>6, <1>7, AloneSteps

LEMMA RelistKeepsMail ==
    ASSUME MailTypes, MailInv, part = "mailboxes", NEW s \in Slots, remove_from_dovecot_users(s)
    PROVE  MailInv'
<1>1. /\ req[s].op = "relist" /\ req[s].box \in Boxes /\ req[s] # Idle
      /\ \E r \in MailRequest : ToMaps(s, r)
  BY RelistGoes, MailOps
<1>2. PICK b \in Boxes : b = req[s].box  BY <1>1
<1>3. PICK r \in MailRequest : ToMaps(s, r)  BY <1>1
<1>4. UNCHANGED <<production, row, vmap, torn>> /\ userdb' = req[s].lines  BY DEF remove_from_dovecot_users, mapVars
<1>5. Handles(s, r) /\ overlap' = overlap  BY <1>3 DEF ToMaps
<1>6. RowsSane' /\ \A u \in Users : Owned(u)' = Owned(u)  BY <1>4, SameRows
<1>7. ASSUME ~overlap, Knows(req[s]), \A t \in Slots \ {s} : req[t] = Idle,
             \A v \in Users : Counted(v) => IsFiniteSet(Owned(v)) /\ Cardinality(Owned(v)) <= MaxMailboxes
      PROVE  /\ Knows(r)'
             /\ \A v \in Users : Counted(v) => IsFiniteSet(Owned(v)') /\ Cardinality(Owned(v)') <= MaxMailboxes
             /\ \A x \in Boxes : x \notin torn' /\ (LoginOK(x) \/ Changing(req[s], x)) => LoginOK(x)' \/ Changing(r, x)
             /\ production => \A x \in Boxes :
                   x \notin torn' /\ (MapOK(x) \/ Changing(req[s], x) \/ Mapping(req[s])) => MapOK(x)' \/ Changing(r, x) \/ Mapping(r)
  <2>1. ~row[b].active /\ userdb' = userdb \ {b}  BY <1>1, <1>2, <1>4, <1>7 DEF Knows
  <2>2. \A x \in Boxes : ~Mapping(req[s]) /\ (Changing(req[s], x) <=> x = b)
    BY <1>1, <1>2 DEF Changing, Mapping
  <2>3. \A v \in Users : Counted(v) => IsFiniteSet(Owned(v)') /\ Cardinality(Owned(v)') <= MaxMailboxes
    BY <1>6, <1>7
  <2>4. \A x \in Boxes \ {b} : LoginOK(x) => LoginOK(x)'  BY <1>4, <2>1 DEF LoginOK
  <2>5. LoginOK(b)'  BY <1>4, <2>1 DEF LoginOK
  <2>6. Knows(r)'  BY <1>3, MailOps DEF Knows, ToMaps
  <2>7. production => Mapping(r)  BY <1>3 DEF ToMaps, Mapping
  <2> QED  BY <2>2, <2>3, <2>4, <2>5, <2>6, <2>7
<1> QED  BY <1>1, <1>4, <1>5, <1>6, <1>7, AloneSteps

LEMMA RenderKeepsMail ==
    ASSUME MailTypes, MailInv, part = "mailboxes", NEW s \in Slots, ReadMailboxRows(s)
    PROVE  MailInv'
<1>1. req[s].op = "render" /\ req[s] # Idle /\ \E r \in MailRequest : ReadsRows(s, r)  BY RenderGoes, MailOps
<1>2. PICK r \in MailRequest : ReadsRows(s, r)  BY <1>1
<1>3. UNCHANGED <<production, row, userdb, vmap, torn>>  BY DEF ReadMailboxRows, mailboxVars
<1>4. Handles(s, r) /\ overlap' = overlap /\ r.op = "rendered" /\ r.seen.boxes = Active
  BY <1>2 DEF ReadsRows, MailboxMaps
<1>5. RowsSane' /\ \A u \in Users : Owned(u)' = Owned(u)  BY <1>3, SameRows
<1>6. ASSUME ~overlap, Knows(req[s]), \A t \in Slots \ {s} : req[t] = Idle,
             \A v \in Users : Counted(v) => IsFiniteSet(Owned(v)) /\ Cardinality(Owned(v)) <= MaxMailboxes
      PROVE  /\ Knows(r)'
             /\ \A v \in Users : Counted(v) => IsFiniteSet(Owned(v)') /\ Cardinality(Owned(v)') <= MaxMailboxes
             /\ \A x \in Boxes : x \notin torn' /\ (LoginOK(x) \/ Changing(req[s], x)) => LoginOK(x)' \/ Changing(r, x)
             /\ production => \A x \in Boxes :
                   x \notin torn' /\ (MapOK(x) \/ Changing(req[s], x) \/ Mapping(req[s])) => MapOK(x)' \/ Changing(r, x) \/ Mapping(r)
  <2>1. Knows(r)'  BY <1>3, <1>4 DEF Knows, MapsRead, Active
  <2>2. \A x \in Boxes : ~Changing(req[s], x)  BY <1>1 DEF Changing
  <2>3. \A v \in Users : Counted(v) => IsFiniteSet(Owned(v)') /\ Cardinality(Owned(v)') <= MaxMailboxes
    BY <1>5, <1>6
  <2>4. \A x \in Boxes : LoginOK(x) => LoginOK(x)'  BY <1>3 DEF LoginOK
  <2>5. Mapping(r)  BY <1>4 DEF Mapping
  <2> QED  BY <2>1, <2>2, <2>3, <2>4, <2>5
<1> QED  BY <1>1, <1>3, <1>4, <1>5, <1>6, AloneSteps

LEMMA RenderedKeepsMail ==
    ASSUME MailTypes, MailInv, part = "mailboxes", NEW s \in Slots, rebuild_postfix_virtual_mailboxes(s)
    PROVE  MailInv'
<1>1. /\ req[s].op = "rendered" /\ overlap' = overlap /\ req[s] # Idle
      /\ \/ Handles(s, Idle) /\ req[s].name = "-"
         \/ \E r \in MailRequest : Handles(s, r) /\ r # Idle /\ r.op = "reload" /\ Same(r, req[s])
  BY RenderedGoes, MailOps
<1>2. PICK r \in MailRequest : Handles(s, r) /\ r.op \in {"idle", "reload"}  BY <1>1, MailOps
<1>3. UNCHANGED <<production, row, userdb, torn>> /\ vmap' = req[s].seen.boxes  BY DEF rebuild_postfix_virtual_mailboxes
<1>4. RowsSane' /\ \A u \in Users : Owned(u)' = Owned(u)  BY <1>3, SameRows
<1>5. ASSUME ~overlap, Knows(req[s]), \A t \in Slots \ {s} : req[t] = Idle,
             \A v \in Users : Counted(v) => IsFiniteSet(Owned(v)) /\ Cardinality(Owned(v)) <= MaxMailboxes
      PROVE  /\ Knows(r)'
             /\ \A v \in Users : Counted(v) => IsFiniteSet(Owned(v)') /\ Cardinality(Owned(v)') <= MaxMailboxes
             /\ \A x \in Boxes : x \notin torn' /\ (LoginOK(x) \/ Changing(req[s], x)) => LoginOK(x)' \/ Changing(r, x)
             /\ production => \A x \in Boxes :
                   x \notin torn' /\ (MapOK(x) \/ Changing(req[s], x) \/ Mapping(req[s])) => MapOK(x)' \/ Changing(r, x) \/ Mapping(r)
  <2>1. Knows(r)'  BY <1>2 DEF Knows
  <2>2. \A x \in Boxes : ~Changing(req[s], x)  BY <1>1 DEF Changing
  <2>3. \A v \in Users : Counted(v) => IsFiniteSet(Owned(v)') /\ Cardinality(Owned(v)') <= MaxMailboxes
    BY <1>4, <1>5
  <2>4. \A x \in Boxes : LoginOK(x) => LoginOK(x)'  BY <1>3 DEF LoginOK
  <2>5. \A x \in Boxes : MapOK(x)'
    <3>1. MapsRead(req[s].seen.boxes)  BY <1>1, <1>5 DEF Knows
    <3> QED  BY <1>3, <3>1 DEF MapOK, MapsRead
  <2> QED  BY <2>1, <2>2, <2>3, <2>4, <2>5
<1> QED  BY <1>1, <1>2, <1>3, <1>4, <1>5, AloneSteps

\* The steps of the domains, and the reload: no box is concerned.
LEMMA DomainMoves ==
    ASSUME MailTypes, part = "mailboxes", NEW s \in Slots,
           \/ add_domain(s) \/ ReadDomains(s) \/ rebuild_opendkim_tables(s)
           \/ rebuild_postfix_virtual_domains(s) \/ reload_mail_services(s)
    PROVE  /\ req[s].op \in DomainOps \cup {"reload"} /\ UNCHANGED <<production, row, userdb, vmap, torn>>
           /\ overlap' = overlap
           /\ \E r \in MailRequest : Handles(s, r) /\ r.op \in {"idle", "lock", "opendkim", "vdomains", "render", "reload"}
<1> USE DEF AllOps, CreateOps, DeleteOps, MapOps, DomainOps
<1>1. /\ req[s].op \in DomainOps \cup {"reload"} /\ UNCHANGED <<production, row, userdb, vmap, torn>>
      /\ overlap' = overlap
  BY DEF add_domain, ReadDomains, rebuild_opendkim_tables, rebuild_postfix_virtual_domains, reload_mail_services, At,
         mapVars, Step, End, Goto
<1>2. req[s] \in MailForm /\ Fits(req[s])  BY <1>1, InMailForm
<1>3. /\ req[s].op \in DomainOps => req[s].name \in Domains
      /\ req[s].op \in {"opendkim", "vdomains"} => req[s].lines \in SUBSET Domains
  BY <1>2 DEF Fits
<1>4. ASSUME End(s)
      PROVE  \E r \in MailRequest : Handles(s, r) /\ r.op \in {"idle", "lock", "opendkim", "vdomains", "render", "reload"}
  BY <1>4, EndGoes, MailOps
<1>5. ASSUME NEW op \in {"lock", "vdomains", "render", "reload"}, Step(s, op), req[s].op \in DomainOps,
             op # "lock" => req[s].lines \in SUBSET Domains
      PROVE  \E r \in MailRequest : Handles(s, r) /\ r.op \in {"idle", "lock", "opendkim", "vdomains", "render", "reload"}
  BY <1>3, <1>5, StepGoes
<1>6. CASE add_domain(s)
  <2>1. req[s].op = "add_domain" /\ (End(s) \/ Step(s, "lock"))  BY <1>6 DEF add_domain, At
  <2> QED  BY <1>1, <1>4, <1>5, <2>1
<1>7. CASE ReadDomains(s)
  <2> DEFINE r == [req[s] EXCEPT !.op = "opendkim", !.lines = domain]
  <2>1. req[s].op = "lock" /\ req' = [req EXCEPT ![s] = r] /\ part' = part  BY <1>7 DEF ReadDomains, At, Goto
  <2>2. domain \in SUBSET Domains  BY DEF MailTypes
  <2>3. r \in MailForm /\ r.op = "opendkim" /\ r.lines = domain /\ r.name = req[s].name
    BY <1>2, <2>2 DEF MailForm
  <2> HIDE DEF r
  <2>4. Fits(r)  BY <1>3, <2>1, <2>2, <2>3 DEF Fits
  <2>5. Handles(s, r) /\ r \in MailRequest  BY <2>1, <2>3, <2>4, MailOps DEF Handles
  <2> QED  BY <1>1, <2>3, <2>5
<1>8. CASE rebuild_opendkim_tables(s)
  <2>1. req[s].op = "opendkim" /\ Step(s, "vdomains")  BY <1>8 DEF rebuild_opendkim_tables, At
  <2> QED  BY <1>1, <1>3, <1>5, <2>1
<1>9. CASE rebuild_postfix_virtual_domains(s)
  <2>1. req[s].op = "vdomains" /\ (Step(s, "render") \/ Step(s, "reload"))
    BY <1>9 DEF rebuild_postfix_virtual_domains, At
  <2> QED  BY <1>1, <1>3, <1>5, <2>1
<1>10. CASE reload_mail_services(s)
  <2>1. End(s)  BY <1>10 DEF reload_mail_services
  <2> QED  BY <1>1, <1>4, <2>1
<1> QED  BY <1>6, <1>7, <1>8, <1>9, <1>10

LEMMA DomainStepsKeepMail ==
    ASSUME MailTypes, MailInv, part = "mailboxes", NEW s \in Slots,
           \/ add_domain(s) \/ ReadDomains(s) \/ rebuild_opendkim_tables(s)
           \/ rebuild_postfix_virtual_domains(s) \/ reload_mail_services(s)
    PROVE  MailInv'
<1>1. /\ req[s].op \in DomainOps \cup {"reload"} /\ UNCHANGED <<production, row, userdb, vmap, torn>>
      /\ overlap' = overlap
      /\ \E r \in MailRequest : Handles(s, r) /\ r.op \in {"idle", "lock", "opendkim", "vdomains", "render", "reload"}
  BY DomainMoves
<1>2. PICK r \in MailRequest : Handles(s, r) /\ r.op \in {"idle", "lock", "opendkim", "vdomains", "render", "reload"}
  BY <1>1
<1>3. RowsSane' /\ \A u \in Users : Owned(u)' = Owned(u)  BY <1>1, SameRows
<1>4. req[s] # Idle  BY <1>1, MailOps DEF DomainOps
<1>5. ASSUME ~overlap, Knows(req[s]), \A t \in Slots \ {s} : req[t] = Idle,
             \A v \in Users : Counted(v) => IsFiniteSet(Owned(v)) /\ Cardinality(Owned(v)) <= MaxMailboxes
      PROVE  /\ Knows(r)'
             /\ \A v \in Users : Counted(v) => IsFiniteSet(Owned(v)') /\ Cardinality(Owned(v)') <= MaxMailboxes
             /\ \A x \in Boxes : x \notin torn' /\ (LoginOK(x) \/ Changing(req[s], x)) => LoginOK(x)' \/ Changing(r, x)
             /\ production => \A x \in Boxes :
                   x \notin torn' /\ (MapOK(x) \/ Changing(req[s], x) \/ Mapping(req[s])) => MapOK(x)' \/ Changing(r, x) \/ Mapping(r)
  <2>1. Knows(r)'  BY <1>2 DEF Knows
  <2>2. \A x \in Boxes : ~Changing(req[s], x) /\ ~Mapping(req[s])  BY <1>1 DEF Changing, Mapping, DomainOps
  <2>3. \A v \in Users : Counted(v) => IsFiniteSet(Owned(v)') /\ Cardinality(Owned(v)') <= MaxMailboxes
    BY <1>3, <1>5
  <2>4. \A x \in Boxes : (LoginOK(x) => LoginOK(x)') /\ (MapOK(x) => MapOK(x)')  BY <1>1 DEF LoginOK, MapOK
  <2> QED  BY <2>1, <2>2, <2>3, <2>4
<1> QED  BY <1>1, <1>2, <1>3, <1>4, <1>5, AloneSteps

\* A request that begins marks every mailbox when others are in flight.
LEMMA BeginsKeepMail ==
    ASSUME MailTypes, MailInv, NEW s, NEW r, Starts(s, r)
    PROVE  MailInv'
<1>1. /\ part = "mailboxes" /\ part' = part /\ s \in Slots /\ req[s] = Idle
      /\ req'[s] = r /\ \A t \in Slots \ {s} : req'[t] = req[t]
      /\ UNCHANGED <<production, row, userdb, vmap>>
      /\ overlap' = (overlap \/ ~Quiet) /\ torn' = torn \cup (IF Quiet THEN {} ELSE Boxes)
  BY MailRequestStep DEF Starts, Handles, mapVars
<1>2. RowsSane' /\ \A u \in Users : Owned(u)' = Owned(u)  BY <1>1, SameRows
<1>3. CASE overlap \/ ~Quiet
  <2>1. \A b \in Boxes : b \in torn'  BY <1>1, <1>3 DEF MailInv, TornByOverlap
  <2>2. OneAtATime' /\ TornByOverlap' /\ QuotaHeld' /\ Known'
    BY <1>1, <1>3, <2>1 DEF OneAtATime, TornByOverlap, QuotaHeld, Known
  <2>3. LoginKept' /\ MapKept'  BY <2>1 DEF LoginKept, MapKept
  <2> QED  BY <1>2, <2>2, <2>3 DEF MailInv
<1>4. CASE ~overlap /\ Quiet
  <2>1. \A t \in Slots : req[t] = Idle  BY <1>4 DEF Quiet
  <2>2. \A t \in Slots \ {s} : req'[t] = Idle  BY <1>1, <2>1
  <2>3. OneAtATime' /\ TornByOverlap' /\ ~overlap' /\ torn' = torn  BY <1>1, <1>4, <2>2 DEF OneAtATime, TornByOverlap
  <2>4. \A u \in Users : Counted(u) => IsFiniteSet(Owned(u)) /\ Cardinality(Owned(u)) <= MaxMailboxes
    BY <1>4 DEF MailInv, QuotaHeld
  <2>5. QuotaHeld'  BY <1>1, <1>2, <2>4 DEF QuotaHeld, Counted
  <2>6. Knows(r)'
    <3>1. CASE /\ r.op = "create" /\ r.box \in Boxes /\ r.user \in Users /\ quota(r.user) /\ r.seen = row[r.box]
      <4>1. Counted(r.user)' => Cardinality(Owned(r.user)') < MaxMailboxes
        BY <1>1, <1>2, <3>1 DEF Counted, quota, Limited
      <4>2. /\ r.seen.exists => row'[r.box].exists
            /\ row'[r.box].active = r.seen.active /\ row'[r.box].owner = r.seen.owner
        BY <1>1, <3>1
      <4> QED  BY <3>1, <4>1, <4>2 DEF Knows
    <3>2. CASE r.op = "delete" /\ r.box \in Boxes /\ get_mailbox_by_address(r.box)
      BY <1>1, <3>2 DEF Knows, get_mailbox_by_address
    <3>3. CASE r.op \in {"render", "add_domain", "lock"}  BY <3>3 DEF Knows
    <3> QED  BY <3>1, <3>2, <3>3 DEF Starts
  <2>7. Known'
    <3> SUFFICES ASSUME NEW t \in Slots PROVE Knows(req[t])'  BY DEF Known
    <3>1. CASE t = s  BY <3>1, <1>1, <2>6 DEF Knows
    <3>2. CASE t # s
      <4>1. req'[t].op = "idle"  BY <3>2, <2>2, MailOps
      <4> QED  BY <4>1 DEF Knows
    <3> QED  BY <3>1, <3>2
  <2>8. \A t \in Slots, b \in Boxes : ~Changing(req[t], b) /\ ~Mapping(req[t])  BY <2>1, MailOps DEF Changing, Mapping
  <2>9. \A b \in Boxes \ torn : LoginOK(b) /\ (production => MapOK(b))  BY <2>8 DEF MailInv, LoginKept, MapKept
  <2>10. \A b \in Boxes : (LoginOK(b) => LoginOK(b)') /\ (MapOK(b) => MapOK(b)')  BY <1>1 DEF LoginOK, MapOK
  <2>11. LoginKept' /\ MapKept'  BY <1>1, <2>3, <2>9, <2>10 DEF LoginKept, MapKept
  <2> QED  BY <1>2, <2>3, <2>5, <2>7, <2>11 DEF MailInv
<1> QED  BY <1>3, <1>4

\* Listing all mailboxes makes a row for a directory without one, and an administrator's
\* of one that is nobody's: catch-all mailboxes, that count for nobody.
LEMMA Synced ==
    ASSUME MailTypes, row' = sync_filesystem_mailboxes, NEW x \in Boxes
    PROVE  \/ row'[x] = row[x]
           \/ ~row[x].exists /\ row'[x].exists /\ row'[x].active /\ row'[x].catchall
           \/ /\ row[x].active /\ row[x].owner = Nobody
              /\ row'[x].exists = row[x].exists /\ row'[x].active /\ row'[x].catchall
<1>1. row'[x] = IF x \in maildir /\ ~row[x].exists THEN Row(Admin, TRUE)
                ELSE IF x \in maildir /\ row[x].active /\ row[x].owner = Nobody
                     THEN [row[x] EXCEPT !.owner = Admin, !.catchall = TRUE]
                ELSE row[x]
  BY DEF sync_filesystem_mailboxes
<1>2. LET q == Row(Admin, TRUE) IN q.exists /\ q.active /\ q.catchall  BY RowsTyped, MailboxesAssumption
<1>3. row[x] \in RowSet  BY DEF MailTypes
<1>4. LET q == [row[x] EXCEPT !.owner = Admin, !.catchall = TRUE]
      IN  q.exists = row[x].exists /\ q.active = row[x].active /\ q.catchall = TRUE
  BY <1>3 DEF RowSet
<1> QED  BY <1>1, <1>2, <1>4

LEMMA QuietStepsKeepMail ==
    ASSUME MailTypes, MailInv, list_all_mailboxes \/ \E b \in Boxes : CatchAllDelivery(b)
    PROVE  MailInv'
<1>1. UNCHANGED <<part, req, overlap, production, userdb, vmap, torn>>
  BY DEF list_all_mailboxes, CatchAllDelivery, Serve, requestVars, mapVars
<1>2. \A x \in Boxes : \/ row'[x] = row[x]
                       \/ ~row[x].exists /\ row'[x].exists /\ row'[x].active /\ row'[x].catchall
                       \/ /\ row[x].active /\ row[x].owner = Nobody
                          /\ row'[x].exists = row[x].exists /\ row'[x].active /\ row'[x].catchall
  <2>1. CASE list_all_mailboxes  BY <2>1, Synced DEF list_all_mailboxes
  <2>2. CASE \E b \in Boxes : CatchAllDelivery(b)  BY <2>2 DEF CatchAllDelivery
  <2> QED  BY <2>1, <2>2
<1>3. \A x \in Boxes : row[x].active => row[x].exists  BY DEF MailInv, RowsSane
<1>4. RowsSane'  BY <1>2, <1>3 DEF RowsSane
<1>5. OneAtATime' /\ TornByOverlap'  BY <1>1 DEF MailInv, OneAtATime, TornByOverlap
<1>6. \A u \in Users : Owned(u)' \subseteq Owned(u)  BY <1>2 DEF Owned, Active
<1>7. QuotaHeld'
  <2>1. CASE part = "mailboxes" /\ overlap  BY <2>1, <1>1 DEF QuotaHeld
  <2>2. CASE \A u \in Users : Counted(u) => IsFiniteSet(Owned(u)) /\ Cardinality(Owned(u)) <= MaxMailboxes
    <3>1. \A u \in Users : Counted(u) => IsFiniteSet(Owned(u)') /\ Cardinality(Owned(u)') <= MaxMailboxes
      BY <2>2, <1>6, OwnedShrinks
    <3> QED  BY <3>1, <1>1 DEF QuotaHeld, Counted
  <2> QED  BY <2>1, <2>2 DEF MailInv, QuotaHeld
<1>8. \A x \in Boxes : (LoginOK(x) => LoginOK(x)') /\ (MapOK(x) => MapOK(x)')
  BY <1>1, <1>2, <1>3 DEF LoginOK, MapOK
<1>9. LoginKept' /\ MapKept'  BY <1>1, <1>8 DEF MailInv, LoginKept, MapKept, Changing, Mapping
<1>10. ASSUME part = "mailboxes", ~overlap, NEW s \in Slots PROVE Knows(req[s])'
  <2>1. Knows(req[s])  BY <1>10 DEF MailInv, Known
  <2>2. req[s] = Idle \/ req[s] \in MailForm  BY <1>10 DEF MailTypes, MailRequest
  <2>3. PICK r : r = req[s]  OBVIOUS
  <2>4. r.op # "idle" => r.box \in Boxes /\ r.user \in Users  BY <2>2, <2>3, MailOps DEF MailForm
  <2>5. CASE r.op = "create"
    <3>1. /\ r.seen.exists => /\ row[r.box].exists /\ row[r.box].active = r.seen.active
                              /\ r.seen.owner # Nobody => row[r.box].owner = r.seen.owner
          /\ Counted(r.user) => Cardinality(Owned(r.user)) < MaxMailboxes
      BY <2>1, <2>3, <2>5 DEF Knows
    <3>2. ASSUME Counted(r.user) PROVE Cardinality(Owned(r.user)') < MaxMailboxes
      <4>1. IsFiniteSet(Owned(r.user))  BY <1>10, <2>4, <2>5, <3>2 DEF MailInv, QuotaHeld
      <4>2. IsFiniteSet(Owned(r.user)') /\ Cardinality(Owned(r.user)') <= Cardinality(Owned(r.user))
        BY <1>6, <2>4, <2>5, <4>1, FS_Subset
      <4>3. Cardinality(Owned(r.user)') \in Nat /\ Cardinality(Owned(r.user)) \in Nat  BY <4>1, <4>2, FS_CardinalityType
      <4> QED  BY <3>1, <3>2, <4>2, <4>3, MailboxesAssumption
    <3>3. r.seen.exists => /\ row'[r.box].exists /\ row'[r.box].active = r.seen.active
                           /\ r.seen.owner # Nobody => row'[r.box].owner = r.seen.owner
      <4> QED  BY <1>2, <2>4, <2>5, <3>1 DEF RowSet
    <3>4. Counted(r.user)' <=> Counted(r.user)  BY <1>1 DEF Counted
    <3> QED  BY <1>1, <2>3, <2>5, <3>2, <3>3, <3>4 DEF Knows
  <2>6. CASE r.op \in {"provision", "undo"}
    <3>1. /\ row[r.box].active
          /\ r.box \notin torn /\ ~r.seen.exists => r.box \notin userdb /\ (production => r.box \notin vmap)
      BY <2>1, <2>3, <2>6 DEF Knows
    <3>2. row'[r.box].active  BY <1>2, <2>4, <2>6, <3>1
    <3> QED  BY <1>1, <2>3, <2>6, <3>1, <3>2 DEF Knows
  <2>7. CASE r.op \in DeleteOps
    <3>1. /\ row[r.box].exists
          /\ r.op # "delete" => ~row[r.box].active
          /\ r.op = "relist" => r.lines = userdb \ {r.box}
      BY <2>1, <2>3, <2>7 DEF Knows, DeleteOps
    <3>2. row'[r.box].exists /\ (r.op # "delete" => ~row'[r.box].active)  BY <1>2, <2>4, <2>7, <3>1 DEF DeleteOps
    <3> QED  BY <1>1, <2>3, <2>7, <3>1, <3>2 DEF Knows, DeleteOps
  <2>8. CASE r.op = "rendered"
    <3>1. MapsRead(r.seen.boxes)  BY <2>1, <2>3, <2>8 DEF Knows
    <3>2. MapsRead(r.seen.boxes)'  BY <1>2, <3>1 DEF MapsRead
    <3> QED  BY <1>1, <2>3, <2>8, <3>2 DEF Knows
  <2>9. CASE r.op \notin {"create", "provision", "undo", "rendered"} \cup DeleteOps
    BY <1>1, <2>3, <2>9 DEF Knows, DeleteOps
  <2> QED  BY <2>5, <2>6, <2>7, <2>8, <2>9
<1>11. Known'  BY <1>1, <1>10 DEF Known
<1> QED  BY <1>4, <1>5, <1>7, <1>9, <1>11 DEF MailInv

LEMMA MailRestartKeeps ==
    ASSUME MailTypes, MailInv, Restart
    PROVE  MailInv'
<1> DEFINE hit == {s \in Slots : part = "mailboxes" /\ req[s] # Idle}
<1>1. /\ req' = [s \in Slots |-> Idle] /\ UNCHANGED <<part, overlap, production, row, userdb>>
      /\ torn' = torn \cup {req[s].box : s \in hit}
      /\ production => vmap' = Active
  BY DEF Restart, RestartMailboxes, MailboxMaps
<1>2. RowsSane' /\ \A u \in Users : Owned(u)' = Owned(u)  BY <1>1, SameRows
<1>3. \A s \in Slots : req'[s] = Idle /\ Idle.op = "idle"  BY <1>1, MailOps
<1>4. OneAtATime' /\ TornByOverlap' /\ Known'
  BY <1>1, <1>3 DEF MailInv, OneAtATime, TornByOverlap, Known, Knows
<1>5. QuotaHeld'  BY <1>1, <1>2 DEF MailInv, QuotaHeld, Counted
<1>6. LoginKept'
  <2> SUFFICES ASSUME NEW b \in Boxes, b \notin torn' PROVE LoginOK(b)'  BY DEF LoginKept
  <2>1. ASSUME NEW s \in Slots, part = "mailboxes", Changing(req[s], b) PROVE FALSE
    <3>1. s \in hit /\ req[s].box = b  BY <2>1, MailOps DEF Changing
    <3> QED  BY <1>1, <3>1
  <2>2. LoginOK(b)  BY <1>1, <2>1 DEF MailInv, LoginKept
  <2> QED  BY <1>1, <2>2 DEF LoginOK
<1>7. MapKept'
  <2>1. production => \A b \in Boxes : MapOK(b)'  BY <1>1 DEF MapOK, Active
  <2> QED  BY <1>1, <2>1 DEF MapKept
<1> QED  BY <1>2, <1>4, <1>5, <1>6, <1>7 DEF MailInv

LEMMA MailElsewhereKeeps ==
    ASSUME MailInv, part' = part, UNCHANGED mailboxVars, part # "mailboxes" \/ UNCHANGED <<req, overlap>>
    PROVE  MailInv'
<1>1. UNCHANGED <<production, row, userdb, vmap, torn, domain>>  BY DEF mailboxVars
<1>2. RowsSane' /\ \A u \in Users : Owned(u)' = Owned(u)  BY <1>1, SameRows
<1>3. \A x \in Boxes : (LoginOK(x) => LoginOK(x)') /\ (MapOK(x) => MapOK(x)')  BY <1>1 DEF LoginOK, MapOK
<1>4. QuotaHeld'  BY <1>1, <1>2 DEF MailInv, QuotaHeld, Counted
<1>5. CASE part # "mailboxes"
  BY <1>1, <1>2, <1>3, <1>4, <1>5 DEF MailInv, OneAtATime, TornByOverlap, Known, LoginKept, MapKept
<1>6. CASE UNCHANGED <<req, overlap>>
  <2>1. OneAtATime' /\ TornByOverlap' /\ LoginKept' /\ MapKept'
    BY <1>1, <1>3, <1>6 DEF MailInv, OneAtATime, TornByOverlap, LoginKept, MapKept, Changing, Mapping
  <2>2. ASSUME NEW s \in Slots, Knows(req[s]) PROVE Knows(req[s])'
    BY <1>1, <1>6, <2>2 DEF Knows, MapsRead, Counted, Owned, Active
  <2> QED  BY <1>2, <1>4, <1>6, <2>1, <2>2 DEF MailInv, Known
<1> QED  BY <1>5, <1>6

LEMMA MailNext == DomainInv /\ MailInv /\ [Next]_vars => MailInv'
<1> SUFFICES ASSUME DomainInv, MailInv, [Next]_vars PROVE MailInv'  OBVIOUS
<1>0. MailTypes  BY DEF DomainInv
<1>1. CASE Only("mailboxes") /\ MailboxesStep
  <2>1. part = "mailboxes"  BY <1>1 DEF Only
  <2>2. ASSUME NEW s \in Slots, MailboxStep(s) PROVE MailInv'
    <3>1. CASE \/ \E u \in Users, b \in Boxes : create_new_mailbox(s, u, b) \/ delete_existing_mailbox(s, u, b)
               \/ \E ok \in BOOLEAN : update_server_settings(s, ok)
               \/ \E d \in Domains : create_domain(s, d) \/ remove_domain(s, d)
      BY <1>0, <2>1, <3>1, MailRequestsBegin, BeginsKeepMail
    <3>2. CASE \/ create_mailbox(s) \/ undo_create(s) \/ delete_mailbox(s) \/ remove_from_dovecot_users(s)
               \/ \E n \in 0..3 : provision_system_mailbox(s, n)
               \/ \E ok \in BOOLEAN : ReadUsersFile(s, ok)
      BY <1>0, <2>1, <3>2, CreateKeepsMail, UndoKeepsMail, DeleteKeepsMail, RelistKeepsMail, ProvisionKeepsMail, UnlistKeepsMail
    <3>3. CASE \/ ReadMailboxRows(s) \/ rebuild_postfix_virtual_mailboxes(s) \/ add_domain(s) \/ ReadDomains(s)
               \/ rebuild_opendkim_tables(s) \/ rebuild_postfix_virtual_domains(s) \/ reload_mail_services(s)
      BY <1>0, <2>1, <3>3, RenderKeepsMail, RenderedKeepsMail, DomainStepsKeepMail
    <3> QED  BY <2>2, <3>1, <3>2, <3>3 DEF MailboxStep
  <2> QED  BY <1>0, <1>1, <2>2, QuietStepsKeepMail DEF MailboxesStep
<1>2. CASE Restart  BY <1>0, <1>2, MailRestartKeeps
<1>3. CASE ~(Only("mailboxes") /\ MailboxesStep) /\ Next /\ ~Restart
  <2>1. part # "mailboxes" /\ UNCHANGED mailboxVars  BY <1>3 DEF Next, Only
  <2> QED  BY <2>1, <1>3, SamePart, MailElsewhereKeeps
<1>4. CASE UNCHANGED vars
  <2>1. part' = part /\ UNCHANGED <<req, overlap>> /\ UNCHANGED mailboxVars  BY <1>4 DEF vars, requestVars
  <2> QED  BY <2>1, MailElsewhereKeeps
<1> QED  BY <1>1, <1>2, <1>3, <1>4 DEF Next

LEMMA MailConsistent == DomainInv /\ MailInv => MailboxesConsistent
<1> SUFFICES ASSUME DomainInv, MailInv PROVE MailboxesConsistent  OBVIOUS
<1>1. ProvisionedTogether
  <2> SUFFICES ASSUME Quiet PROVE \A b \in Boxes \ torn : LoginOK(b) /\ (production => MapOK(b))
    BY DEF ProvisionedTogether, LoginOK, MapOK
  <2>1. \A s \in Slots, b \in Boxes : ~Changing(req[s], b) /\ ~Mapping(req[s])  BY MailOps DEF Quiet, Changing, Mapping
  <2> QED  BY <2>1 DEF MailInv, LoginKept, MapKept
<1>2. QuotaKept  BY DEF MailInv, QuotaHeld, QuotaKept, Counted
<1>3. ListedIsAccessible
  BY DEF MailInv, RowsSane, ListedIsAccessible, list_mailboxes, verify_mailbox_access, get_mailbox_by_address, Active
<1> QED  BY <1>1, <1>2, <1>3 DEF MailboxesConsistent

\* Between requests a mailbox that did not see a failed step or an overlapping request is
\* provisioned in all its places or in none; without overlapping requests nobody has
\* more mailboxes that are not catch-all than the quota; what is listed can be opened.
THEOREM MailboxesAlwaysConsistent == Spec => []MailboxesConsistent
BY DomainsStart, DomainsNext, MailStart, MailNext, MailConsistent, PTL DEF Spec

-----------------------------------------------------------------------------
(* DNS checks: what a record that passes the check is worth to a receiver. *)

Hits(r, h) == {i \in 1..Len(r) : r[i].m \in {"all", h} \/ (r[i].m = "mx" /\ h = Own)}

LEMMA LeastOf ==
    ASSUME NEW T \in SUBSET Nat, T # {}
    PROVE  \E i \in T : \A j \in T : i <= j
<1>1. PICK i \in T : \A j \in T : ~(<<j, i>> \in OpToRel(<, Nat))  BY WFMin, NatLessThanWellFounded
<1>2. \A j \in T : ~(j < i)  BY <1>1 DEF OpToRel
<1> QED  BY <1>2

LEMMA FirstHit ==
    ASSUME NEW r \in Seq(Terms), NEW h, Hits(r, h) # {}
    PROVE  \E i \in Hits(r, h) : SpfResult(r, h) = r[i].q /\ \A j \in Hits(r, h) : i <= j
<1> DEFINE T == Hits(r, h)  first == CHOOSE i \in T : \A j \in T : i <= j
<1>1. T \in SUBSET Nat  BY DEF Hits
<1>2. \E i \in T : \A j \in T : i <= j  BY <1>1, LeastOf
<1>3. SpfResult(r, h) = r[first].q  BY DEF SpfResult, Hits
<1> HIDE DEF T
<1>4. first \in T /\ \A j \in T : first <= j  BY <1>2
<1> HIDE DEF first
<1>5. \E i \in T : SpfResult(r, h) = r[i].q /\ \A j \in T : i <= j  BY <1>3, <1>4
<1> QED  BY <1>5 DEF T

\* A record of the simple form: passing mechanisms, and one final "all".
Simple(r) ==
    /\ Len(r) > 0 /\ r[Len(r)].m = "all" /\ r[Len(r)].q \in {"-", "~"}
    /\ \A i \in 1..(Len(r) - 1) : r[i].q = "+" /\ r[i].m \in {"mx", Own} \cup Relays

LEMMA SimpleParts ==
    ASSUME NEW r \in Seq(Terms), simple_spf_parts(r).ok
    PROVE  /\ Simple(r) /\ simple_spf_parts(r).need = {r[i].m : i \in 1..(Len(r) - 1)}
           /\ simple_spf_parts(r).last = r[Len(r)].q
BY DEF simple_spf_parts, Simple

\* A host with a mechanism of its own, or the own host behind "mx", passes.
LEMMA ListedPasses ==
    ASSUME NEW r \in Seq(Terms), Simple(r), NEW h, NEW k \in 1..(Len(r) - 1), r[k].m = h \/ (r[k].m = "mx" /\ h = Own)
    PROVE  SpfResult(r, h) = "+"
<1>1. Len(r) \in Nat  OBVIOUS
<1>2. k \in Hits(r, h)  BY <1>1 DEF Hits
<1>3. PICK i \in Hits(r, h) : SpfResult(r, h) = r[i].q /\ \A j \in Hits(r, h) : i <= j  BY <1>2, FirstHit
<1>4. i \in 1..Len(r) /\ i <= k  BY <1>2, <1>3 DEF Hits
<1>5. i \in 1..(Len(r) - 1)  BY <1>1, <1>4
<1> QED  BY <1>3, <1>5 DEF Simple

\* Any other host gets what "all" says.
LEMMA StrangerFails ==
    ASSUME NEW r \in Seq(Terms), Simple(r)
    PROVE  SpfResult(r, "stranger") = r[Len(r)].q
<1>1. Len(r) \in Nat /\ Len(r) \in 1..Len(r)  BY DEF Simple
<1>2. Len(r) \in Hits(r, "stranger")  BY <1>1 DEF Hits, Simple
<1>3. PICK i \in Hits(r, "stranger") : SpfResult(r, "stranger") = r[i].q  BY <1>2, FirstHit
<1>4. i \in 1..Len(r) /\ (r[i].m \in {"all", "stranger"} \/ (r[i].m = "mx" /\ "stranger" = Own))
  BY <1>3 DEF Hits
<1>5. r[i].m \in {"all", "stranger"}  BY <1>4 DEF Own
<1>6. \A j \in 1..(Len(r) - 1) : r[j].m \notin {"all", "stranger"}  BY DnsAssumption DEF Simple, Own
<1>7. i \notin 1..(Len(r) - 1)  BY <1>5, <1>6
<1>8. i = Len(r)  BY <1>1, <1>4, <1>7
<1> QED  BY <1>3, <1>8

\* The loose comparison of the check: every host mail leaves through passes, others fail.
LEMMA MatchingAuthorises ==
    ASSUME NEW r \in Seq(Terms), NEW hosts, record_matches(hosts, r)
    PROVE  /\ \A h \in hosts \cup {Own} : SpfResult(r, h) = "+"
           /\ SpfResult(r, "stranger") \in {"-", "~"}
           /\ hosts # {} => SpfResult(r, "stranger") = "-"
<1> DEFINE e == build_spf_expected(hosts)  c == simple_spf_parts(r)
           need == IF e.last = "~" THEN e.need \ {Own} ELSE e.need
<1>1. c.ok /\ need \subseteq c.need /\ (c.last = e.last \/ (e.last = "~" /\ c.last = "-"))  BY DEF record_matches
<1>2. Simple(r) /\ c.need = {r[i].m : i \in 1..(Len(r) - 1)} /\ c.last = r[Len(r)].q  BY <1>1, SimpleParts
<1> HIDE DEF c
<1>3. /\ "mx" \in need /\ hosts \subseteq need
      /\ hosts # {} => e.last = "-"
  BY DEF build_spf_expected, Own
<1> HIDE DEF need, e
<1>4. ASSUME NEW h \in hosts \cup {Own} PROVE SpfResult(r, h) = "+"
  <2>1. h \in c.need \/ (h = Own /\ "mx" \in c.need)  BY <1>1, <1>3, <1>4
  <2>2. PICK k \in 1..(Len(r) - 1) : r[k].m = h \/ (r[k].m = "mx" /\ h = Own)  BY <1>2, <2>1
  <2> QED  BY <1>2, <2>2, ListedPasses
<1>5. SpfResult(r, "stranger") = c.last /\ c.last \in {"-", "~"}  BY <1>2, StrangerFails DEF Simple
<1> QED  BY <1>1, <1>3, <1>4, <1>5

-----------------------------------------------------------------------------
(* DNS checks: the inductive invariant.                                    *)

Fields == Plain \cup {"spf"}
Records == SpfRecords \cup {<<>>}
Zones == {z \in [Fields -> Values \cup Records] : z.spf \in Records}
CheckOps == {"verify_dns", "compute_dns_state"}
Stamps == CheckOps \cup {"never"}
Checks == [op : CheckOps, hosts : SUBSET Relays, left : SUBSET {"domain", "endpoint"}, found : Zones]

DnsTypes ==
    /\ zone \in Zones /\ relays \in SUBSET Relays
    /\ stamp \in [Canonical -> [checked : Stamps, verified : Stamps]]
    /\ part = "dns" => req \in [Slots -> {Idle} \cup Checks]

\* The columns are what the check made of the zone and the relays it saw.
FromCheck ==
    /\ verified.spf => seen.zone.spf \in Records /\ record_matches(seen.hosts, seen.zone.spf)
    /\ verified.mta_sts => seen.zone.policy = "right" /\ seen.zone.host = "right"

\* A positive answer came with a stamp on every record, and stamps stay.
StampsStay == reply.ok => \A x \in Canonical : stamp[x].verified # "never"

DnsInv == DnsTypes /\ FromCheck /\ StampsStay

-----------------------------------------------------------------------------
(* DNS checks: the proof.                                                  *)

LEMMA ZonesTyped ==
    /\ \A z \in Zones : z \in [Fields -> Values \cup Records] /\ z.spf \in Records
    /\ Nothing \in Zones
    /\ \A r \in Records : r \in Seq(Terms)
<1>1. Nothing \in Zones  BY DEF Nothing, Zones, Fields, Values, Records
<1>2. \A r \in Records : r \in Seq(Terms)
  <2>1. <<>> \in Seq(Terms)  OBVIOUS
  <2>2. \A r \in SpfRecords : r \in Seq(Terms)  BY DnsAssumption
  <2> QED  BY <2>1, <2>2 DEF Records
<1> QED  BY <1>1, <1>2 DEF Zones

LEMMA DnsStart == Init => DnsInv
<1> SUFFICES ASSUME Init PROVE DnsInv  OBVIOUS
<1>1. DnsInit /\ req = [s \in Slots |-> Idle]  BY DEF Init, RequestsInit
<1>2. PICK spf \in SpfRecords, v \in {"other", "right"} :
          zone = [x \in Fields |-> IF x = "spf" THEN spf ELSE IF x = "txt" THEN v ELSE "right"]
  BY <1>1 DEF DnsInit, Fields
<1>3. zone \in Zones  BY <1>2 DEF Zones, Fields, Values, Records
<1>4. DnsTypes  BY <1>1, <1>3 DEF DnsInit, DnsTypes, Stamps
<1>5. ~verified.spf /\ ~verified.mta_sts /\ ~reply.ok  BY <1>1 DEF DnsInit, Canonical
<1> QED  BY <1>4, <1>5 DEF DnsInv, FromCheck, StampsStay

LEMMA StartCheckKeeps ==
    ASSUME DnsInv, part = "dns", NEW s \in Slots, NEW op \in CheckOps, StartCheck(s, op)
    PROVE  DnsInv'
<1> DEFINE r == [op |-> op, hosts |-> relays, left |-> {"domain", "endpoint"}, found |-> Nothing]
<1>1. req' = [req EXCEPT ![s] = r] /\ UNCHANGED <<part, dnsVars>>  BY DEF StartCheck, Begin
<1>2. r \in Checks  BY ZonesTyped DEF DnsInv, DnsTypes, Checks
<1> HIDE DEF r
<1>3. DnsTypes'  BY <1>1, <1>2 DEF DnsInv, DnsTypes, dnsVars
<1> QED  BY <1>1, <1>3 DEF DnsInv, FromCheck, StampsStay, dnsVars

\* What a lookup finds is part of a zone.
LEMMA LookupKeeps ==
    ASSUME DnsInv, part = "dns", NEW s \in Slots, NEW g \in {"domain", "endpoint"}, Lookup(s, g)
    PROVE  DnsInv'
<1> DEFINE new == Found(g)  old == req[s].found
           f == [x \in DOMAIN old |-> IF x \in DOMAIN new THEN new[x] ELSE old[x]]
           r == [req[s] EXCEPT !.left = @ \ {g}, !.found = [x \in DOMAIN @ |-> IF x \in DOMAIN new THEN new[x] ELSE @[x]]]
<1>1. req' = [req EXCEPT ![s] = r] /\ UNCHANGED <<part, dnsVars>> /\ req[s].op \in CheckOps
  BY DEF Lookup, Goto, CheckOps
<1>2. req[s] \in Checks /\ zone \in Zones  BY <1>1, MailOps DEF DnsInv, DnsTypes, CheckOps
<1>3. old \in Zones  BY <1>2 DEF Checks
<1>4. zone \in [Fields -> Values \cup Records] /\ zone.spf \in Records
      /\ old \in [Fields -> Values \cup Records] /\ old.spf \in Records
  BY <1>2, <1>3, ZonesTyped
<1>5. \A x \in DOMAIN new : new[x] \in Values \cup Records
  <2>1. CASE g = "endpoint"
    BY <2>1, <1>4 DEF Found, check_mta_sts_endpoint, check_mta_sts_host, check_mta_sts_policy, Fields, Plain, Values
  <2>2. CASE g = "domain"
    BY <2>2, <1>4 DEF Found, check_mx, check_spf, check_dkim, check_dmarc, check_mta_sts, check_tls_rpt, Fields, Plain
  <2> QED  BY <2>1, <2>2
<1>6. "spf" \in DOMAIN new => new["spf"] \in Records
  <2>1. CASE g = "endpoint"  BY <2>1 DEF Found, check_mta_sts_endpoint
  <2>2. CASE g = "domain"  BY <2>2, <1>4 DEF Found, check_spf
  <2> QED  BY <2>1, <2>2
<1>7. r \in [op : CheckOps, hosts : SUBSET Relays, left : SUBSET {"domain", "endpoint"}, found : {f}]
  BY <1>2 DEF Checks
<1> HIDE DEF new
<1>8. f \in Zones  BY <1>4, <1>5, <1>6 DEF Zones, Fields
<1> HIDE DEF f, r
<1>9. r \in Checks  BY <1>7, <1>8 DEF Checks
<1>10. DnsTypes'  BY <1>1, <1>9 DEF DnsInv, DnsTypes, dnsVars
<1> QED  BY <1>1, <1>10 DEF DnsInv, FromCheck, StampsStay, dnsVars

\* Stamps of a check: never taken back.
LEMMA StampsTyped ==
    ASSUME DnsInv, part = "dns", NEW s \in Slots, NEW op \in CheckOps, req[s].op = op, NEW checks,
           stamp' = stamp_audit_timestamps(s, checks)
    PROVE  /\ stamp' \in [Canonical -> [checked : Stamps, verified : Stamps]]
           /\ \A x \in Canonical : checks[x] \/ stamp[x].verified # "never" => stamp'[x].verified # "never"
<1>1. op # "never" /\ op \in Stamps  BY DEF CheckOps, Stamps
<1>2. stamp \in [Canonical -> [checked : Stamps, verified : Stamps]]  BY DEF DnsInv, DnsTypes
<1> QED  BY <1>1, <1>2 DEF stamp_audit_timestamps

LEMMA VerifyKeeps ==
    ASSUME DnsInv, part = "dns", NEW s \in Slots, verify_dns(s)
    PROVE  DnsInv'
<1>1. PICK checks : checks = run_dns_checks(s)  OBVIOUS
<1>2. /\ req[s].op = "verify_dns" /\ req' = [req EXCEPT ![s] = Idle] /\ UNCHANGED <<part, zone, relays, names>>
      /\ verified' = checks /\ stamp' = stamp_audit_timestamps(s, checks)
      /\ seen' = [zone |-> req[s].found, hosts |-> req[s].hosts]
      /\ reply'.ok => \A x \in Canonical : checks[x]
  BY <1>1 DEF verify_dns, At, End, Goto
<1>3. req[s] \in Checks  BY <1>2, MailOps DEF DnsInv, DnsTypes
<1>4. req[s].found.spf \in Records  BY <1>3, ZonesTyped DEF Checks
<1>5. /\ checks.spf => record_matches(req[s].hosts, req[s].found.spf)
      /\ checks.mta_sts => req[s].found.policy = "right" /\ req[s].found.host = "right"
  BY <1>1 DEF run_dns_checks, apply_expected_check_results
<1>6. FromCheck'  BY <1>2, <1>4, <1>5 DEF FromCheck
<1>7. /\ stamp' \in [Canonical -> [checked : Stamps, verified : Stamps]]
      /\ \A x \in Canonical : checks[x] => stamp'[x].verified # "never"
  BY <1>2, StampsTyped DEF CheckOps
<1>8. StampsStay'  BY <1>2, <1>7 DEF StampsStay
<1>9. DnsTypes'  BY <1>2, <1>7 DEF DnsInv, DnsTypes
<1> QED  BY <1>6, <1>8, <1>9 DEF DnsInv

LEMMA ComputeKeeps ==
    ASSUME DnsInv, part = "dns", NEW s \in Slots, compute_dns_state(s)
    PROVE  DnsInv'
<1>1. PICK checks : checks = run_dns_checks(s)  OBVIOUS
<1>2. /\ req[s].op = "compute_dns_state" /\ req' = [req EXCEPT ![s] = Idle]
      /\ UNCHANGED <<part, zone, relays, names, verified, seen, reply>> /\ stamp' = stamp_audit_timestamps(s, checks)
  BY <1>1 DEF compute_dns_state, At, End, Goto
<1>3. /\ stamp' \in [Canonical -> [checked : Stamps, verified : Stamps]]
      /\ \A x \in Canonical : stamp[x].verified # "never" => stamp'[x].verified # "never"
  BY <1>2, StampsTyped DEF CheckOps
<1>4. StampsStay'  BY <1>2, <1>3 DEF DnsInv, StampsStay
<1>5. DnsTypes'  BY <1>2, <1>3 DEF DnsInv, DnsTypes
<1> QED  BY <1>2, <1>4, <1>5 DEF DnsInv, FromCheck

\* The operator's changes.
LEMMA ZoneChangesKeep ==
    ASSUME DnsInv,
           \/ \E x \in {"txt", "policy"}, v \in Values : Publish(x, v)
           \/ Publish("spf", <<>>)
           \/ \E h \in Relays : EnableRelay(h)
    PROVE  DnsInv'
<1>1. UNCHANGED <<part, req, verified, stamp, seen, reply>>  BY DEF Publish, EnableRelay, Serve
<1>2. zone \in [Fields -> Values \cup Records] /\ zone.spf \in Records /\ relays \in SUBSET Relays
  BY ZonesTyped DEF DnsInv, DnsTypes
<1>3. zone' \in Zones /\ relays' \in SUBSET Relays
  <2>1. ASSUME NEW x \in {"txt", "policy"}, NEW v \in Values, Publish(x, v) PROVE zone' \in Zones /\ relays' = relays
    BY <2>1, <1>2 DEF Publish, Zones, Fields
  <2>2. CASE Publish("spf", <<>>)  BY <2>2, <1>2 DEF Publish, Zones, Fields, Records
  <2>3. ASSUME NEW h \in Relays, EnableRelay(h) PROVE zone' = zone /\ relays' \in SUBSET Relays
    BY <2>3, <1>2 DEF EnableRelay
  <2> QED  BY <1>2, <2>1, <2>2, <2>3 DEF DnsInv, DnsTypes
<1>4. DnsTypes'  BY <1>1, <1>3 DEF DnsInv, DnsTypes
<1> QED  BY <1>1, <1>4 DEF DnsInv, FromCheck, StampsStay

LEMMA DnsNext == DnsInv /\ [Next]_vars => DnsInv'
<1> SUFFICES ASSUME DnsInv, [Next]_vars PROVE DnsInv'  OBVIOUS
<1>1. CASE Only("dns") /\ DnsStep
  <2>1. part = "dns"  BY <1>1 DEF Only
  <2>2. ASSUME NEW s \in Slots,
               \/ verify_domain_dns(s) \/ get_dns_state(s) \/ verify_dns(s) \/ compute_dns_state(s)
               \/ \E g \in {"domain", "endpoint"} : Lookup(s, g)
        PROVE  DnsInv'
    <3>1. CASE verify_domain_dns(s)  BY <2>1, <3>1, StartCheckKeeps DEF verify_domain_dns, CheckOps
    <3>2. CASE get_dns_state(s)  BY <2>1, <3>2, StartCheckKeeps DEF get_dns_state, CheckOps
    <3> QED  BY <2>1, <2>2, <3>1, <3>2, VerifyKeeps, ComputeKeeps, LookupKeeps
  <2> QED  BY <1>1, <2>2, ZoneChangesKeep DEF DnsStep
<1>2. CASE Restart
  <2>1. req' = [s \in Slots |-> Idle] /\ part' = part /\ UNCHANGED dnsVars  BY <1>2 DEF Restart, DnsRestart
  <2> QED  BY <2>1 DEF dnsVars, DnsInv, DnsTypes, FromCheck, StampsStay
<1>3. CASE ~(Only("dns") /\ DnsStep) /\ Next /\ ~Restart
  <2>1. part # "dns" /\ UNCHANGED dnsVars  BY <1>3 DEF Next, Only
  <2>2. part' = part  BY <1>3, SamePart
  <2> QED  BY <2>1, <2>2 DEF dnsVars, DnsInv, DnsTypes, FromCheck, StampsStay
<1>4. CASE UNCHANGED vars
  <2>1. UNCHANGED <<part, req, dnsVars>>  BY <1>4 DEF vars, requestVars
  <2> QED  BY <2>1 DEF dnsVars, DnsInv, DnsTypes, FromCheck, StampsStay
<1> QED  BY <1>1, <1>2, <1>3, <1>4 DEF Next

\* A domain whose SPF record counts as verified is one whose record, as it was seen, lets
\* every relay pass and no stranger; a verified MTA-STS has its policy and its host; and an
\* answer that everything is verified is never given for a record that was not.
THEOREM VerifiedAlwaysValid == Spec => []VerifiedMeansValid
<1>1. DnsInv => VerifiedMeansValid
  <2> SUFFICES ASSUME DnsInv PROVE VerifiedMeansValid  OBVIOUS
  <2>1. ASSUME verified.spf
        PROVE  /\ \A h \in seen.hosts \cup {Own} : SpfResult(seen.zone.spf, h) = "+"
               /\ SpfResult(seen.zone.spf, "stranger") \in {"-", "~"}
               /\ seen.hosts # {} => SpfResult(seen.zone.spf, "stranger") = "-"
    <3>1. seen.zone.spf \in Seq(Terms) /\ record_matches(seen.hosts, seen.zone.spf)
      BY <2>1, ZonesTyped DEF DnsInv, FromCheck
    <3> QED  BY <3>1, MatchingAuthorises
  <2> QED  BY <2>1 DEF DnsInv, FromCheck, StampsStay, VerifiedMeansValid
<1> QED  BY DnsStart, DnsNext, <1>1, PTL DEF Spec
=============================================================================
