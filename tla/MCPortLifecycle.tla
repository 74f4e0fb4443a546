-------------------------- MODULE MCPortLifecycle --------------------------
(* Model-checking instance of PortLifecycle: a and b are subports of one   *)
(* Portfile, c and cu two variants of a third port; a and c share a        *)
(* portgroup. Every graph without cycles over the three names, and up to   *)
(* one dependency that is for building only.                               *)
EXTENDS PortLifecycle

CONSTANTS a, b, c, cu, pa, pb, pc3, g, h

MCName == (a :> pa) @@ (b :> pb) @@ (c :> pc3) @@ (cu :> pc3)
MCHash == (a :> 1) @@ (b :> 1) @@ (c :> 2) @@ (cu :> 2)
MCGroups == (a :> {g}) @@ (b :> {h}) @@ (c :> {g, h}) @@ (cu :> {g})

Acyclic ==
    {f \in [{pa, pb, pc3} -> SUBSET {pa, pb, pc3}] :
        \E rank \in [{pa, pb, pc3} -> 1 .. 3] :
            \A m \in {pa, pb, pc3} : \A n \in f[m] : rank[n] < rank[m]}

(* At most one edge of the cycle pa, pb, pc3. With every run-time graph    *)
(* this gives cycles of both kinds of dependencies too.                    *)
OneBuild ==
    {f \in [{pa, pb, pc3} -> SUBSET {pa, pb, pc3}] :
        /\ f[pa] \subseteq {pb} /\ f[pb] \subseteq {pc3} /\ f[pc3] \subseteq {pa}
        /\ \A m, n \in {pa, pb, pc3} : f[m] # {} /\ f[n] # {} => m = n}

MCOptions == {{}, {"dependents"}, {"dependencies"}, {"force"}, {"dependents", "dependencies"}}

(* Initially one version of every name is active, and builds has nothing   *)
(* that depends has.                                                       *)
MCInit ==
    /\ Init
    /\ {Name[p] : p \in active} = {Name[p] : p \in entries}
    /\ \A n \in Names : builds[n] \cap depends[n] = {}

MCSpec == MCInit /\ [][Next]_vars
=============================================================================
