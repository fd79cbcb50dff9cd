-------------------------- MODULE MCConfigSecrets --------------------------
(***************************************************************************)
(* Small instances of ConfigSecrets for TLC: the secret "db" holds settings *)
(* of the database, "own" may be the user's admin secret.                   *)
(***************************************************************************)
EXTENDS ConfigSecrets

CONSTANTS db, own, adm, noName, v1, v2, junk, gen, default, missing

MCName == {db, own, adm}
MCValue == {v1, v2, junk, gen}

From(n) == [name |-> n, keyed |-> TRUE]
Unset == [name |-> noName, keyed |-> FALSE]
Keyless(n) == [name |-> n, keyed |-> FALSE]

\* Everything from one secret, or the password only; the admin secret is the
\* generated one, one of the user's, or the database secret itself.
AllFromDb == [f \in Field |-> From(db)]
PasswordFromDb == [f \in Field |-> IF f = "password" THEN From(db)
                                   ELSE IF f = "host" THEN Keyless(own) ELSE Unset]
MCSpecs == {[refs |-> AllFromDb, admin |-> noName],
            [refs |-> AllFromDb, admin |-> own],
            [refs |-> PasswordFromDb, admin |-> own],
            [refs |-> AllFromDb, admin |-> db]}

All(v) == [f \in Field |-> v]
MCUserData == {All(v1), All(v2), [All(v1) EXCEPT !["port"] = junk],
               [All(v2) EXCEPT !["password"] = missing]}

UserSecrets == {db, own}
AllKinds == {"edit", "secret", "crash", "apiError"}
=============================================================================
