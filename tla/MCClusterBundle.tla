-------------------------- MODULE MCClusterBundle --------------------------
(* Small instances of ClusterBundle for TLC. *)
EXTENDS ClusterBundle, TLC

CONSTANTS q1, q2, c1, c2, m1, m2, i1, i2

Load(h, o1, o2) ==
  [home |-> (c1 :> <<m1, i1>>) @@ (c2 :> h), op |-> (q1 :> o1) @@ (q2 :> o2),
   about |-> (q1 :> i1) @@ (q2 :> i1)]

\* Two queries meet one Create; a query meets the same id made on two masters;
\* two Creates race on one; or a download meets two bundles that are collected on
\* one master.
MCInputs ==
  {Load(NoMaster, "delete", o) : o \in {"delete", "download", "status", "list"}}
  \cup {Load(<<m2, i1>>, "none", o) : o \in {"delete", "download", "status", "list"}}
  \cup {Load(<<m1, i1>>, "none", "none"), Load(<<m1, i2>>, "none", "download")}

\* One Create and a lone download, for the violation.
MCDownload == {[home |-> c1 :> <<m1, i1>>, op |-> q1 :> "download", about |-> q1 :> i1]}

=============================================================================
