------------------------------ MODULE GpgKeys ------------------------------
(***************************************************************************)
(* GPG keys (backend/app/gpg): rows per user, and one keyring that all     *)
(* users share.  gpg is called in threads, so other requests run between   *)
(* looking a key up and using it.                                          *)
(***************************************************************************)
EXTENDS Requests

CONSTANTS Owners, Prints     \* users; fingerprints

VARIABLES
    keys,        \* rows of GpgKey by user and fingerprint
    public, secret,  \* the keyring
    maker,       \* history: who generated a key; the user himself is its address
    signed,      \* history: signatures, by user and fingerprint
    opened,      \* history: encrypted messages, by the fingerprints used
    halved       \* history: rows whose deletion a restart cut off

keyVars == <<keys, public, secret, maker, signed, opened, halved>>
NoKeyRow == [exists |-> FALSE, private |-> FALSE, address |-> "-"]
Unmade == "unmade"
ASSUME KeysAssumption == Unmade \notin Owners

\* The rows of a user for an address; which is first is up to the database.
get_key_for_address(u, a) == {f \in Prints : keys[u][f].exists /\ keys[u][f].address = a}

\* The key is made in the keyring, then the row is stored.
generate_key(s, u, f) ==
    /\ maker[f] = Unmade
    /\ Begin(s, [op |-> "generate", user |-> u, print |-> f, address |-> u])
    /\ public' = public \cup {f} /\ secret' = secret \cup {f} /\ maker' = [maker EXCEPT ![f] = u]
    /\ UNCHANGED <<keys, signed, opened, halved>>

\* Of an armored public key, pasted, fetched from the key server, or found in
\* a mail; the address is the request's or the one in the key.
import_key(s, u, f, a) ==
    /\ maker[f] # Unmade
    /\ Begin(s, [op |-> "import", user |-> u, print |-> f, address |-> a])
    /\ public' = public \cup {f}
    /\ UNCHANGED <<keys, secret, maker, signed, opened, halved>>

\* An existing row keeps its kind; a new one is of a public key.
StoreKey(s) ==
    LET u == req[s].user  f == req[s].print  new == ~keys[u][f].exists
    IN  /\ req[s].op \in {"generate", "import"} /\ End(s)
        /\ keys' = [keys EXCEPT ![u][f] = [exists |-> TRUE, address |-> req[s].address,
                                           private |-> IF new THEN req[s].op = "generate" ELSE @.private]]
        /\ UNCHANGED <<public, secret, maker, signed, opened, halved>>

\* delete_key: the rows of the address are selected ...
delete_key(s, u, a) ==
    /\ get_key_for_address(u, a) # {}
    /\ Begin(s, [op |-> "delete", user |-> u, rows |-> [f \in get_key_for_address(u, a) |-> keys[u][f].private],
                 left |-> get_key_for_address(u, a)])
    /\ UNCHANGED keyVars

\* Mutant: the secret key goes whoever asks.
DropAnyKey(s, f) ==
    /\ At(s, "delete") /\ f \in req[s].left
    /\ secret' = secret \ {f} /\ public' = public \ {f}
    /\ Goto(s, [req[s] EXCEPT !.left = @ \ {f}])
    /\ UNCHANGED <<keys, maker, signed, opened, halved>>

\* ... each key removed from the keyring, the secret one first: gpg keeps a
\* public key whose secret key is there ...
delete_from_keyring(s, f) ==
    LET gone == IF req[s].rows[f] THEN secret \ {f} ELSE secret
    IN  /\ At(s, "delete") /\ f \in req[s].left
        /\ secret' = gone /\ public' = IF f \in gone THEN public ELSE public \ {f}
        /\ Goto(s, [req[s] EXCEPT !.left = @ \ {f}])
        /\ UNCHANGED <<keys, maker, signed, opened, halved>>

\* ... and the rows deleted in one commit.
CommitDelete(s) ==
    /\ At(s, "delete") /\ req[s].left = {} /\ End(s)
    /\ keys' = [keys EXCEPT ![req[s].user] = [f \in Prints |-> IF f \in DOMAIN req[s].rows THEN NoKeyRow ELSE @[f]]]
    /\ UNCHANGED <<public, secret, maker, signed, opened, halved>>

sign_message(s, u, a, f) ==
    /\ f \in get_key_for_address(u, a) /\ keys[u][f].private
    /\ Begin(s, [op |-> "sign", user |-> u, print |-> f])
    /\ UNCHANGED keyVars
DetachedSignature(s) ==
    /\ At(s, "sign") /\ End(s)
    /\ signed' = IF req[s].print \in secret THEN signed \cup {<<req[s].user, req[s].print>>} ELSE signed
    /\ UNCHANGED <<keys, public, secret, maker, opened, halved>>

\* A key per recipient, or an error before anything is encrypted; missing ones
\* are looked for on the key server (import_key).
encrypt_message(s, u, chosen) ==
    /\ \A a \in DOMAIN chosen : chosen[a] \in get_key_for_address(u, a)
    /\ Begin(s, [op |-> "encrypt", user |-> u, chosen |-> chosen])
    /\ UNCHANGED keyVars
Encrypted(s) ==
    LET prints == {req[s].chosen[a] : a \in DOMAIN req[s].chosen}
    IN  /\ At(s, "encrypt") /\ End(s)
        /\ opened' = IF prints \subseteq public THEN opened \cup {prints} ELSE opened
        /\ UNCHANGED <<keys, public, secret, maker, signed, halved>>

\* verify_signature and decrypt_message read the keyring only.
verify_signature(f) == IF f \in public THEN "valid" ELSE "no_public_key"
decrypt_message(m) == m \cap secret # {}

KeysInit ==
    /\ keys = [u \in Owners |-> [f \in Prints |-> NoKeyRow]]
    /\ public = {} /\ secret = {} /\ maker = [f \in Prints |-> Unmade] /\ signed = {} /\ opened = {} /\ halved = {}

Deleting(s, u, f) == part = "keys" /\ At(s, "delete") /\ req[s].user = u /\ f \in DOMAIN req[s].rows

KeysRestart ==
    /\ halved' = halved \cup {x \in Owners \X Prints : \E s \in Slots : Deleting(s, x[1], x[2])}
    /\ UNCHANGED <<keys, public, secret, maker, signed, opened>>

KeysStep ==
    \E s \in Slots :
        \/ \E u \in Owners, f \in Prints :
              \/ generate_key(s, u, f)
              \/ \E a \in Owners : import_key(s, u, f, a) \/ sign_message(s, u, a, f)
        \/ \E u, a \in Owners : delete_key(s, u, a)
        \/ \E u \in Owners, to \in SUBSET Owners \ {{}} : \E chosen \in [to -> Prints] : encrypt_message(s, u, chosen)
        \/ StoreKey(s) \/ CommitDelete(s) \/ DetachedSignature(s) \/ Encrypted(s)
        \/ \E f \in Prints : delete_from_keyring(s, f)

-----------------------------------------------------------------------------
Held(u, f) == keys[u][f].private /\ <<u, f>> \notin halved /\ ~\E s \in Slots : Deleting(s, u, f)

\* A private row means that the keyring can sign with it, that its signatures
\* verify and that what was encrypted for it can be read, however other users
\* import and delete the same key: only a delete of the row itself, done or
\* begun, takes the keys away.
PrivateKeysUsable ==
    \A u \in Owners, f \in Prints : Held(u, f) =>
        /\ f \in secret
        /\ <<u, f>> \in signed => verify_signature(f) = "valid"
        /\ \A m \in opened : f \in m => decrypt_message(m)

\* The keyring holds everybody's secret keys, but a user signs with keys that
\* he generated only, whatever rows he has by importing (sign_message).
SignaturesByMaker == \A x \in signed : maker[x[2]] = x[1]
=============================================================================
