------------------------- MODULE MCDiagnosticsJob -------------------------
(* Small instances of DiagnosticsJob for TLC. *)
EXTENDS DiagnosticsJob, TLC

CONSTANTS r1, r2, r3, r4, m1, m2

Ask(o, m, n) == [op |-> o, at |-> m, name |-> n]

Load(a, b, c, bundles) ==
  [req |-> (r1 :> a) @@ (r2 :> b) @@ (r3 :> c) @@ (r4 :> Free), old |-> bundles]

\* A create meets another one and a cancel; a create meets a download and a delete
\* of its bundle, or a create in the same second; two masters delete each other's
\* bundle; a bundle is deleted while it is downloaded, be there one or two of its
\* name, or twice. At least one request is left for forwarding.
MCInputs ==
  {Load(Ask("create", m1, 1), Ask("create", m, 1), Ask("cancel", m2, 1), {}) : m \in Masters}
  \cup {Load(Ask("create", m1, 1), Ask("download", m, 3), Ask("delete", m2, 3), {}) : m \in Masters}
  \cup {Load(Ask("create", m1, 1), Ask("download", m1, 3), Ask("create", m2, 1), {})}
  \cup {Load(Ask("delete", m1, 2), Ask("delete", m2, 1), Free, {<<m1, 1>>, <<m2, 2>>}),
        Load(Ask("delete", m1, 2), Ask("download", m1, 2), Free, {<<m2, 2>>}),
        Load(Ask("delete", m1, 2), Ask("download", m1, 2), Free, {<<m1, 2>>, <<m2, 2>>}),
        Load(Ask("delete", m1, 2), Ask("delete", m1, 2), Free, {}),
        Load(Ask("delete", m1, 2), Ask("create", m2, 1), Free, {<<m2, 2>>})}

=============================================================================
