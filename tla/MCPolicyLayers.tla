--------------------------- MODULE MCPolicyLayers ---------------------------
(***************************************************************************)
(* Instances of PolicyLayers for TLC: two tenants' config files, and one   *)
(* file and one policy that do not build together.                         *)
(***************************************************************************)
EXTENDS PolicyLayers

CONSTANTS home, edited, moved, strict, loose, theirs, north, south

\* `home` and `edited` belong to one tenant; `moved` is the volume at another tenant's edge.
TwoTenants == [local \in Locals |-> IF local = moved THEN south ELSE north]

OwnDocuments == [t \in Tenants |-> IF t = south THEN {theirs} ELSE Policies \ {theirs}]

\* `strict` needs an upstream that only `home` declares.
AllButStrict == (Locals \X (Policies \union {NoPolicy})) \ {<<edited, strict>>}
=============================================================================
