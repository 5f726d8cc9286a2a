---------------------------- MODULE Configuration ----------------------------
(***************************************************************************)
(* What of a configuration file decides how the gateway shows itself on    *)
(* the bus (internal/config): the defaults that ApplyDefaults fills in,    *)
(* the checks of Validate, and the branches that the two patterns name.    *)
(* Operators only; ControlBranch is what runs on them.                     *)
(*                                                                         *)
(* A branch name is the sequence of its segments.  A pattern has template  *)
(* variables among them.  A name that git would refuse has the segment     *)
(* Malformed; so has a pattern whose braces do not match.  The fields that *)
(* are only checked for their own form are one, `wellFormed`.              *)
(***************************************************************************)
EXTENDS Naturals, Sequences, FiniteSets

CONSTANTS
    GatewayID, ProjectIDs, \* slugs; a gateway and a project may have the same
    DefaultHeartbeat, DefaultLease,  \* in ticks, as all times here
    MinHeartbeat, MaxHeartbeat, MaxLease

Literals == {"gateway", "project", "main", "malformed"}
Variables == {"{gateway_id}", "{project_id}"}
NoID == "" \* the project id of a branch that belongs to none

\* A slug does not contain braces, and is not one of the literals in use.
ASSUME SlugAssumption ==
    /\ GatewayID \notin Literals \cup Variables \cup {NoID}
    /\ ProjectIDs \cap (Literals \cup Variables \cup {NoID}) = {}
ASSUME TimingAssumption ==
    /\ {DefaultHeartbeat, DefaultLease, MinHeartbeat, MaxHeartbeat, MaxLease} \subseteq Nat
    /\ MinHeartbeat > 0

DefaultTemplate == <<"main">>
DefaultControlPattern == <<"gateway", "{gateway_id}">>
DefaultProjectPattern == <<"project", "{gateway_id}", "{project_id}">>

\* An absent field of the file is <<>> or 0.

ApplyDefaults(c) ==
    [c EXCEPT !.template  = IF @ = <<>> THEN DefaultTemplate ELSE @,
              !.control   = IF @ = <<>> THEN DefaultControlPattern ELSE @,
              !.project   = IF @ = <<>> THEN DefaultProjectPattern ELSE @,
              !.heartbeat = IF @ = 0 THEN DefaultHeartbeat ELSE @,
              !.lease     = IF @ = 0 THEN DefaultLease ELSE @]

-----------------------------------------------------------------------------
(* Branch patterns.                                                        *)

\* A variable is replaced by its value wherever it stands.
ExpandBranchPattern(pattern, project) ==
    [i \in DOMAIN pattern |->
        CASE pattern[i] = "{gateway_id}" -> GatewayID
          [] pattern[i] = "{project_id}" -> project
          [] OTHER -> pattern[i]]

ValidBranchName(branch) == branch # <<>> /\ \A i \in DOMAIN branch : branch[i] # "malformed"

\* project_id is an error in a pattern that is expanded for no project.
Expands(pattern, project) ==
    /\ project = NoID => \A i \in DOMAIN pattern : pattern[i] # "{project_id}"
    /\ ValidBranchName(ExpandBranchPattern(pattern, project))

ControlBranch(c) == ExpandBranchPattern(c.control, NoID)
ProjectBranch(c, p) == ExpandBranchPattern(c.project, p)

-----------------------------------------------------------------------------
(* Validate.                                                               *)

\* Mutant: the lease is longer than one interval.
ValidTimingOneBeat(c) == c.heartbeat \in MinHeartbeat..MaxHeartbeat
                         /\ c.lease > c.heartbeat /\ c.lease <= MaxLease
ValidTiming(c) == /\ c.heartbeat \in MinHeartbeat..MaxHeartbeat
                  /\ c.lease > 2 * c.heartbeat /\ c.lease <= MaxLease

ValidBranches(c) ==
    /\ ValidBranchName(c.template) /\ Expands(c.control, NoID)
    /\ ControlBranch(c) # c.template
    /\ \A p \in c.projects :
        /\ Expands(c.project, p)
        /\ ProjectBranch(c, p) \notin {c.template, ControlBranch(c)}
    \* seenBranches
    /\ \A p, q \in c.projects : ProjectBranch(c, p) = ProjectBranch(c, q) => p = q

Validate(c) == c.wellFormed /\ ValidTiming(c) /\ ValidBranches(c)

\* Load: a file is used only with its defaults filled in, and only if valid.
Loads(file) == Validate(ApplyDefaults(file))
Load(file) == ApplyDefaults(file)
=============================================================================
