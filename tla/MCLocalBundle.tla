--------------------------- MODULE MCLocalBundle ---------------------------
(* Small instances of LocalBundle for TLC. *)
EXTENDS LocalBundle, TLC

CONSTANTS r1, r2, r3

\* The second of two collectors is optional.
MCOptional == {2}

Load(o1, o2, o3) == (r1 :> o1) @@ (r2 :> o2) @@ (r3 :> o3)

\* Two racing Creates; one bundle that two others delete, download
\* or look at. Requests may come in any order or not at all.
MCWorkloads ==
  {Load("create", "create", "none"), Load("create", "delete", "delete"),
   Load("create", "delete", "getfile"), Load("create", "delete", "get")}

\* Two requests, for the violations.
MCCreateDelete == {(r1 :> "create") @@ (r2 :> "delete")}

=============================================================================
