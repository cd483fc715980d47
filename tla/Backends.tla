----------------------------- MODULE Backends -----------------------------
(***************************************************************************)
(* Which brain runs which act of a curation, and how it is confined:       *)
(* adapters.yaml and its routing table, the selection of an OS sandbox,    *)
(* and one invocation with its environment, its roots and its time limit.  *)
(*                                                                         *)
(* adapters.yaml is [specs, default, routing]: specs maps a backend name   *)
(* to [network, roots, program]; routing maps an act it lists to a name.   *)
(* A host is [os, usable, found, exists]: the platform, the sandboxes that  *)
(* work there, the programs on its PATH, the read roots that exist.        *)
(***************************************************************************)
EXTENDS Naturals, Sequences, FiniteSets

Act == {"plan", "author"}
Unset == "unset"
NotBuilt == [plan |-> Unset, author |-> Unset, plan_iso |-> "closed", author_iso |-> "closed"]

(* BackendRegistry: what adapters.yaml must satisfy, and how it resolves.  *)
RegistryOk(y) ==
  /\ DOMAIN y.specs # {}
  /\ y.default \in DOMAIN y.specs
  /\ DOMAIN y.routing \subseteq Act
  /\ \A act \in DOMAIN y.routing : y.routing[act] \in DOMAIN y.specs
RoutedName(y, act, default) ==
  IF act \in DOMAIN y.routing THEN y.routing[act]
  ELSE IF default # Unset THEN default ELSE y.default

(* select_backend_isolation: the platform's kernel sandbox, or the         *)
(* restricted fallback if the operator allowed it, or nothing.             *)
KernelSandbox(os) ==
  CASE os = "darwin" -> "seatbelt" [] os = "linux" -> "bwrap" [] OTHER -> Unset
SelectIsolation(host, reduced) ==
  IF KernelSandbox(host.os) \in host.usable THEN KernelSandbox(host.os)
  ELSE IF reduced THEN "restricted" ELSE "closed"
\* A backend with network access is never confined.
BuildOne(spec, host, reduced) ==
  IF spec.network = "none" THEN SelectIsolation(host, reduced) ELSE "open"

\* The brain of each act, or NotBuilt: an unknown name, or one act that cannot
\* be confined, builds nothing for either.
Pinned(y, act, default, override) ==
  IF override # Unset THEN override ELSE RoutedName(y, act, default)
\* (mutant) the isolation of the plan's brain is taken for both acts.
BuildRoutedBackendOnce(y, host, reduced, default, override) ==
  LET plan == Pinned(y, "plan", default, override)
      author == Pinned(y, "author", default, override)
      iso(name) == BuildOne(y.specs[name], host, reduced)
  IN IF ~({plan, author} \subseteq DOMAIN y.specs) THEN NotBuilt
     ELSE IF iso(plan) = "closed" THEN NotBuilt
     ELSE [plan |-> plan, author |-> author, plan_iso |-> iso(plan), author_iso |-> iso(plan)]
BuildRoutedBackend(y, host, reduced, default, override) ==
  LET plan == Pinned(y, "plan", default, override)
      author == Pinned(y, "author", default, override)
      iso(name) == BuildOne(y.specs[name], host, reduced)
  IN IF ~({plan, author} \subseteq DOMAIN y.specs) THEN NotBuilt
     ELSE IF "closed" \in {iso(plan), iso(author)} THEN NotBuilt
     ELSE [plan |-> plan, author |-> author, plan_iso |-> iso(plan), author_iso |-> iso(author)]

(* One invocation: only PASS 2 of a sandboxed backend is confined.         *)
\* A program is looked up on the host, since the sandbox has its own PATH; the
\* read roots that do not exist are left out.
Invoked(y, built, act, host) ==
  LET name == IF act = "plan" THEN built.plan ELSE built.author
      spec == y.specs[name]
      confined == act = "author" /\ spec.network = "none"
  IN [name |-> name,
      by |-> IF confined THEN built.author_iso ELSE "open",
      starts |-> spec.program \in host.found,
      writes |-> CASE confined /\ built.author_iso # "restricted" -> {"worktree", "scratch"}
                   [] OTHER -> {"worktree", "scratch", "host"},
      reads |-> spec.roots \cap host.exists]

-----------------------------------------------------------------------------
\* For a valid adapters.yaml: no brain is built exactly when an act names none
\* or names one that must be confined where it cannot be; a brain that is built
\* runs each act under the name configured for it, and an AUTHOR process without
\* network access writes outside the worktree only if the operator allowed it.
ActsRunWhereConfigured(x) ==
  LET y == x.adapters
      built == BuildRoutedBackend(y, x.host, x.reduced, x.default, x.override)
      wanted(act) == CASE x.override # Unset -> x.override
                       [] x.override = Unset /\ act \in DOMAIN y.routing -> y.routing[act]
                       [] OTHER -> IF x.default # Unset THEN x.default ELSE y.default
      confinable == x.reduced \/ KernelSandbox(x.host.os) \in x.host.usable
      strict(act) == y.specs[wanted(act)].network = "none"
  IN RegistryOk(y) =>
       /\ (built = NotBuilt) <=>
            \/ \E act \in Act : wanted(act) \notin DOMAIN y.specs
            \/ ~confinable /\ \E act \in Act : strict(act)
       /\ built # NotBuilt =>
            \A act \in Act :
              LET call == Invoked(y, built, act, x.host)
              IN /\ call.name = wanted(act)
                 /\ (act = "author" /\ strict(act) /\ "host" \in call.writes)
                      => x.reduced /\ KernelSandbox(x.host.os) \notin x.host.usable
=============================================================================
