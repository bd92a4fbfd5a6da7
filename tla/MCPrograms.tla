----------------------------- MODULE MCPrograms -----------------------------
(***************************************************************************)
(* Instances for TLC of the modules about programs and where they come     *)
(* from: PackageStores, ModuleResolver and TrustedRuns.  They have no      *)
(* variable in common; one run checks them, each behaviour in one of them. *)
(***************************************************************************)
EXTENDS PackageStores, ModuleResolver, TrustedRuns, TLC

CONSTANTS v1, v2,             \* versions of a package
          p1, p2,             \* processes
          script,             \* the path of a script
          old, new, plain     \* what its file may hold

-----------------------------------------------------------------------------
(* PackageStores: two packages in one scope, one of them in a second one. *)

MCPlaces == {<<"local", "a">>, <<"local", "b">>, <<"user", "a">>}
MCVersions == {v1, v2}
MCProcs == {p1, p2}

-----------------------------------------------------------------------------
(* TrustedRuns: a script that changes, and what it declares with it; one   *)
(* prompt decides two of the three permissions.                            *)

MCPaths == {script}
MCContents == {old, new, plain}
MCDeclares ==
    [c \in MCContents |-> CASE c = old -> {"network"}
                             [] c = new -> {"ui", "network"}
                             [] c = plain -> {}]
MCOrder == <<"ui", "network", "memory">>
MCConsole == {"ui", "memory"}
MCGrants == {{"memory"}}
MCAsks == {{"ui", "memory"}}

-----------------------------------------------------------------------------
(* ModuleResolver: every graph of up to three modules, each with up to two *)
(* dependencies, and graphs where a module has two providers and its users *)
(* accept different releases of it.                                        *)

Three == {"a", "b", "c"}
TwoKinds == {"required", "optional"}
AnyRelease == {"r1", "r2"}
Needing(m, k, releases) == [name |-> m, kind |-> k, accepts |-> releases]
Providing(m, rank, r, deps) == [name |-> m, rank |-> rank, release |-> r, deps |-> deps]

\* Roots are the required modules of the program, then the optional ones.
OneOrTwoRoots ==
    {<<Needing(m, k, AnyRelease)>> : m \in Three, k \in TwoKinds}
    \cup {<<Needing(m, "required", AnyRelease), Needing(n, k, AnyRelease)>> :
              m \in Three, n \in Three, k \in TwoKinds}

UpToTwoDeps(m) ==
    LET one == {Needing(n, k, AnyRelease) : n \in Three \ {m}, k \in TwoKinds}
    IN  {<<>>, <<Needing(m, "required", AnyRelease)>>} \cup {<<d>> : d \in one}
        \cup {<<d, e>> : d \in one, e \in {x \in one : x.name = "c"}}

ProvidedIn(S, deps) == {Providing(m, 1, "r1", deps[m]) : m \in S}
AllGraphs ==
    UNION {{ProvidedIn(S, deps) : deps \in
              {d \in [S -> UNION {UpToTwoDeps(m) : m \in Three}] :
                  \A m \in S : d[m] \in UpToTwoDeps(m)}} : S \in SUBSET Three \ {{}}}

\* a and b use c, which comes in two releases.
Releases(x, y, k) ==
    {Providing("a", 1, "r1", <<Needing("c", k, x)>>),
     Providing("b", 1, "r1", <<Needing("c", "required", y)>>),
     Providing("c", 1, "r1", <<>>),
     Providing("c", 2, "r2", <<Needing("b", "optional", AnyRelease)>>)}

NoRequest == [providers |-> {}, roots |-> <<>>]
MCRequests ==
    {NoRequest}
    \cup {[providers |-> g, roots |-> r] : g \in AllGraphs, r \in OneOrTwoRoots}
    \cup {[providers |-> Releases(x, y, k), roots |-> r] :
              x \in SUBSET AnyRelease, y \in SUBSET AnyRelease, k \in TwoKinds, r \in OneOrTwoRoots}

-----------------------------------------------------------------------------
(* One of the three. *)

VARIABLE part   \* the module that runs: "stores", "resolver" or "trust"

MCSymmetry == Permutations(MCVersions) \cup Permutations(MCProcs)

MCInit ==
    /\ part \in {"stores", "resolver", "trust"}
    /\ Init /\ ResolverInit /\ TrustInit
    /\ part = "stores" \/ kind = "module"
    /\ part = "resolver" \/ request = NoRequest
    /\ part = "trust" \/ file = [path \in MCPaths |-> plain]

MCNext ==
    \/ part = "stores" /\ Next /\ UNCHANGED <<part, resolverVars, trustVars>>
    \/ part = "resolver" /\ ResolverNext /\ UNCHANGED <<part, vars, trustVars>>
    \/ part = "trust" /\ TrustNext /\ UNCHANGED <<part, vars, resolverVars>>

MCSpec == MCInit /\ [][MCNext]_<<part, vars, resolverVars, trustVars>>
=============================================================================
