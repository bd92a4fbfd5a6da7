--------------------------- MODULE ModuleResolver ---------------------------
(***************************************************************************)
(* The resolution of a graph of modules (src/src/core/module_resolver.cpp):*)
(* a depth-first visit of the requirements, from the roots a program       *)
(* declares, that selects a provider for each module and puts the modules  *)
(* in the order they are loaded.  The recursive visit() is a machine with  *)
(* a stack here, one step for a call, a return or the end of a loop.       *)
(***************************************************************************)
EXTENDS Naturals, Sequences, FiniteSets, SequencesExt

\* A request has a set of providers and a sequence of roots.  A provider has a
\* name, a rank (the order of its source), a release (its version and stableId)
\* and a sequence of requirements, its deps.  A requirement, and a root is one,
\* has a name, a kind, and the releases it accepts.
CONSTANT Requests

Kinds == {"required", "optional"}
AreRequirements(s) == s \in Seq(ToSet(s)) /\ \A d \in ToSet(s) : d.kind \in Kinds
WellFormed(r) ==
    /\ AreRequirements(r.roots) /\ IsFiniteSet(r.providers)
    /\ \A p \in r.providers : AreRequirements(p.deps)
ASSUME RequestsAssumption == \A r \in Requests : WellFormed(r)

VARIABLES request,  \* what is resolved
          roots,    \* the roots not resolved yet, the first being resolved
          stack,    \* frames of visit(), the innermost first
          call,     \* the requirement visit() is called for, and whether an
                    \* optional one led to it
          answer,   \* what the visit() that returned last said
          selected, \* modules a provider was selected for, with the provider
          visiting, visited, order,
          outcome,  \* of run()
          firm,     \* history: modules completed for a required chain of requirements
          cyclic    \* history: modules a cycle was reported at

resolverVars == <<request, roots, stack, call, answer, selected, visiting, visited, order,
                  outcome, firm, cyclic>>

Nothing == [name |-> "nothing"]

ResolverInit ==
    /\ request \in Requests
    /\ roots = request.roots
    /\ stack = <<>>
    /\ call = Nothing /\ answer = "none"
    /\ selected = {} /\ visiting = {} /\ visited = {}
    /\ order = <<>>
    /\ outcome = "running"
    /\ firm = {} /\ cyclic = {}

\* choose(): of the providers that will do, one of the best rank.
Fits(provider, requirement) ==
    provider.name = requirement.name /\ provider.release \in requirement.accepts
Choose(requirement) ==
    {p \in request.providers : /\ Fits(p, requirement)
                   /\ \A q \in request.providers : Fits(q, requirement) => p.rank <= q.rank}

Calling == call # Nothing
Required == call.kind = "required" /\ ~call.inherited
Top == Head(stack)
Say(truth) == answer' = IF truth THEN "true" ELSE "false"

-----------------------------------------------------------------------------
\* run(): the next root.
VisitRoot ==
    /\ outcome = "running" /\ roots # <<>>
    /\ stack = <<>> /\ ~Calling /\ answer = "none"
    /\ call' = [name |-> Head(roots).name, kind |-> Head(roots).kind,
                accepts |-> Head(roots).accepts, inherited |-> Head(roots).kind = "optional"]
    /\ UNCHANGED <<request, roots, stack, answer, selected, visiting, visited, order, outcome,
                   firm, cyclic>>

\* run(): visit() of the first root has returned.
RootReturns ==
    /\ outcome = "running" /\ stack = <<>> /\ answer # "none"
    /\ outcome' = IF answer = "false" /\ Head(roots).kind = "required" THEN "error" ELSE outcome
    /\ roots' = Tail(roots)
    /\ answer' = "none"
    /\ UNCHANGED <<request, stack, call, selected, visiting, visited, order, firm, cyclic>>

\* run(): every root was visited; the plan is the order.
Done ==
    /\ outcome = "running" /\ roots = <<>>
    /\ outcome' = "plan"
    /\ UNCHANGED <<request, roots, stack, call, answer, selected, visiting, visited, order,
                   firm, cyclic>>

\* visit(): no provider will do.
Unavailable ==
    /\ Calling /\ Choose(call) = {}
    /\ Say(~Required)
    /\ call' = Nothing
    /\ UNCHANGED <<request, roots, stack, selected, visiting, visited, order, outcome, firm, cyclic>>

\* visit(): another provider was selected before, and it will not do.
Conflict ==
    /\ Calling /\ Choose(call) # {}
    /\ \E p \in selected : p.name = call.name /\ ~Fits(p, call)
    /\ Say(~Required)
    /\ call' = Nothing
    /\ UNCHANGED <<request, roots, stack, selected, visiting, visited, order, outcome, firm, cyclic>>

Agreed(p) ==
    /\ Calling /\ p \in Choose(call)
    /\ \A q \in selected : q.name = call.name => Fits(q, call)
Selecting(p) ==
    selected' = IF \E q \in selected : q.name = p.name THEN selected ELSE selected \cup {p}

\* visit(): the module was completed before.
Visited(p) ==
    /\ Agreed(p) /\ p.name \in visited
    /\ Selecting(p)
    /\ Say(TRUE)
    /\ call' = Nothing
    /\ UNCHANGED <<request, roots, stack, visiting, visited, order, outcome, firm, cyclic>>

\* visit(): the module is being visited, or was given up.
Cycle(p) ==
    /\ Agreed(p) /\ p.name \notin visited /\ p.name \in visiting
    /\ Selecting(p)
    /\ Say(FALSE)
    /\ cyclic' = cyclic \cup {p.name}
    /\ call' = Nothing
    /\ UNCHANGED <<request, roots, stack, visiting, visited, order, outcome, firm>>

\* visit(): the dependencies of the provider are to be visited.
Enter(p) ==
    /\ Agreed(p) /\ p.name \notin visited \cup visiting
    /\ Selecting(p)
    /\ visiting' = visiting \cup {p.name}
    /\ stack' = <<[name |-> p.name, deps |-> p.deps, todo |-> p.deps, kind |-> call.kind,
                   inherited |-> call.inherited]>> \o stack
    /\ call' = Nothing
    /\ UNCHANGED <<request, roots, answer, visited, order, outcome, firm, cyclic>>

\* visit(): the call for the next dependency.
VisitNext ==
    /\ stack # <<>> /\ ~Calling /\ answer = "none"
    /\ Top.todo # <<>>
    /\ call' = [name |-> Head(Top.todo).name, kind |-> Head(Top.todo).kind,
                accepts |-> Head(Top.todo).accepts,
                inherited |-> Top.inherited \/ Top.kind = "optional"]
    /\ UNCHANGED <<request, roots, stack, answer, selected, visiting, visited, order, outcome,
                   firm, cyclic>>

\* visit(): a dependency that counts failed.  The module stays in visiting.
GiveUp ==
    /\ stack # <<>> /\ answer = "false"
    /\ Head(Top.todo).kind = "required" /\ ~Top.inherited
    /\ stack' = Tail(stack)
    /\ UNCHANGED <<request, roots, call, answer, selected, visiting, visited, order, outcome,
                   firm, cyclic>>

\* Mutant: a failed dependency never ends the loop.
DependencyIgnored ==
    /\ stack # <<>> /\ answer # "none"
    /\ stack' = <<[Top EXCEPT !.todo = Tail(@)]>> \o Tail(stack)
    /\ answer' = "none"
    /\ UNCHANGED <<request, roots, call, selected, visiting, visited, order, outcome, firm, cyclic>>

\* visit(): the call returned and the loop goes on.
DependencyReturns ==
    /\ stack # <<>> /\ answer # "none"
    /\ answer = "true" \/ Head(Top.todo).kind = "optional" \/ Top.inherited
    /\ stack' = <<[Top EXCEPT !.todo = Tail(@)]>> \o Tail(stack)
    /\ answer' = "none"
    /\ UNCHANGED <<request, roots, call, selected, visiting, visited, order, outcome, firm, cyclic>>

\* Mutant: the module is not put among the visited ones, nor taken from visiting.
CompleteForgets ==
    /\ stack # <<>> /\ ~Calling /\ answer = "none"
    /\ Top.todo = <<>>
    /\ order' = Append(order, Top.name)
    /\ Say(TRUE)
    /\ stack' = Tail(stack)
    /\ UNCHANGED <<request, roots, call, selected, visiting, visited, outcome, firm, cyclic>>

\* visit(): every dependency was visited.
Complete ==
    /\ stack # <<>> /\ ~Calling /\ answer = "none"
    /\ Top.todo = <<>>
    /\ visiting' = visiting \ {Top.name}
    /\ visited' = visited \cup {Top.name}
    /\ order' = Append(order, Top.name)
    /\ firm' = IF Top.kind = "required" /\ ~Top.inherited THEN firm \cup {Top.name} ELSE firm
    /\ Say(TRUE)
    /\ stack' = Tail(stack)
    /\ UNCHANGED <<request, roots, call, selected, outcome, cyclic>>

ResolverNext ==
    \/ VisitRoot \/ RootReturns \/ Done
    \/ Unavailable \/ Conflict
    \/ \E p \in request.providers : Visited(p) \/ Cycle(p) \/ Enter(p)
    \/ VisitNext \/ GiveUp \/ DependencyReturns \/ Complete

ResolverSpec == ResolverInit /\ [][ResolverNext]_resolverVars
-----------------------------------------------------------------------------
(* Properties *)

Modules == {p.name : p \in request.providers}
Frames == [name : Modules, deps : {p.deps : p \in request.providers}, kind : Kinds,
           inherited : BOOLEAN]

ResolverTypeOK ==
    /\ IsSuffix(roots, request.roots)
    /\ selected \subseteq request.providers
    /\ visiting \cup visited \subseteq {p.name : p \in selected}
    /\ visiting \cap visited = {} /\ ToSet(order) = visited
    /\ \A i \in DOMAIN stack :
          /\ [name |-> stack[i].name, deps |-> stack[i].deps, kind |-> stack[i].kind,
              inherited |-> stack[i].inherited] \in Frames
          /\ IsSuffix(stack[i].todo, stack[i].deps)
    /\ answer \in {"none", "true", "false"}
    /\ outcome \in {"running", "plan", "error"}

Names(deps, kinds) == {deps[i].name : i \in {j \in DOMAIN deps : deps[j].kind \in kinds}}
Needs(m, providers, kinds) ==
    UNION {Names(p.deps, kinds) : p \in {q \in providers : q.name = m}}
Before(m) ==
    {order[i] : i \in {j \in DOMAIN order : \E k \in DOMAIN order : j < k /\ order[k] = m}}

\* A module that was completed for a required chain of requirements is in the
\* load order once, behind every module it requires, whatever was visited, given
\* up or left out before it (module_resolver.cpp:291-299; docs/modules.md:277:
\* "dependency-first load order").
RequiredFirst ==
    /\ \A i, j \in DOMAIN order : order[i] = order[j] => i = j
    /\ \A m \in firm :
          m \in ToSet(order) /\ Needs(m, selected, {"required"}) \subseteq Before(m)

\* From m one need leads to the next for ever: as the modules are finitely many,
\* into a cycle.
LeadsIntoCycle(m) ==
    \E S \in SUBSET Modules :
        m \in S /\ \A n \in S : Needs(n, request.providers, Kinds) \cap S # {}

\* A cycle is reported only for modules whose dependencies lead into one, also
\* when a module is found in `visiting` that was given up and is no longer being
\* visited (module_resolver.cpp:285-295).
CyclesAreReal == \A m \in cyclic : LeadsIntoCycle(m)

\* What is reached from the modules of S over needs of some kinds.
Reached(S, providers, kinds) ==
    LET Steps[n \in 0..Cardinality(Modules)] ==
            IF n = 0 THEN S
            ELSE Steps[n - 1] \cup UNION {Needs(m, providers, kinds) : m \in Steps[n - 1]}
    IN  Steps[Cardinality(Modules)]

\* docs/modules.md:265: "Required dependencies fail resolution when unavailable,
\* incompatible, or part of a cycle."  A plan then holds everything the required
\* roots require.  visit() answers "true" for a module that was completed under
\* an optional requirement, although what that module requires was missing.
RequiredComplete ==
    outcome = "plan" =>
        Reached(Names(request.roots, {"required"}), selected, {"required"}) \subseteq ToSet(order)
=============================================================================
