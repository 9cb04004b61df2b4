-------------------------------- MODULE Scope -------------------------------
(***************************************************************************)
(* The scope decision (services/scope_service.py, scope_db.py): may active   *)
(* traffic be sent to a target, given the addresses its name resolved to and *)
(* the tables the administrators keep (api/admin.py, api/targets.py).        *)
(*                                                                         *)
(* An address is a number of AddressBits bits, a CIDR its network address    *)
(* and prefix length, a domain the sequence of its labels.  Values are taken *)
(* after their canonicalisation.  A request changes one row of one table,    *)
(* whose unique constraint makes overlapping ones take turns: one step.      *)
(* What refers to a target may keep it from being deleted: it is not here.   *)
(* Bad... operators are seeded faults.                                       *)
(***************************************************************************)
EXTENDS Naturals, Sequences, FiniteSets, SequencesExt

CONSTANTS
    AddressBits,    \* bound: 32 in IPv4
    PrivateBlocks,  \* the blocks ipaddress calls private
    Name,           \* domain names, as sequences of labels
    Builtin,        \* BUILTIN_DENY_RULES
    MaxRanges, MaxRules, MaxTargets,    \* bounds: rows of each table, the built-in aside
    MaxResolved     \* bound: addresses of one name

VARIABLES
    private,    \* private_cidrs
    deny,       \* deny_rules
    targets     \* targets

scopeVars == <<private, deny, targets>>

Address == 0..(2^AddressBits - 1)

Size(len) == 2^(AddressBits - len)

\* Canonical networks: the host bits are cleared.
Cidr == {b \in [net : Address, len : 0..AddressBits] : b.net % Size(b.len) = 0}

Hosts(b) == b.net..(b.net + Size(b.len) - 1)

ASSUME ScopeAssumption ==
    /\ {AddressBits, MaxRanges, MaxRules, MaxTargets, MaxResolved} \subseteq Nat
    /\ PrivateBlocks \subseteq Cidr
    /\ \A n \in Name : n # << >> /\ n \in Seq({n[i] : i \in DOMAIN n})

\* canonicalize_domain: a target has at least two labels
HostName == {n \in Name : Len(n) >= 2}

\* A single address is the network of all its bits; a name has no network.
Single == {b \in Cidr : b.len = AddressBits}
NoNet == [net |-> 0, len |-> 0]
NoName == << >>

\* canonicalize_target
Target == [kind : {"IPV4"}, net : Single, name : {NoName}] \cup [kind : {"CIDR"}, net : Cidr, name : {NoName}]
              \cup [kind : {"DOMAIN"}, net : {NoNet}, name : HostName]

\* What add_private_cidr accepts: a network that is_private.
PrivateRange == {c \in Cidr : \E b \in PrivateBlocks : Hosts(c) \subseteq Hosts(b)}

\* _normalise_deny_value: a suffix may be a single label, an exact name may not
DenyRule == [type : {"DOMAIN_EXACT"}, net : {NoNet}, name : HostName]
                \cup [type : {"DOMAIN_SUFFIX"}, net : {NoNet}, name : Name]
                \cup [type : {"IP"}, net : Single, name : {NoName}]
                \cup [type : {"CIDR"}, net : Cidr, name : {NoName}]

ASSUME BuiltinAssumption == Builtin \subseteq DenyRule

---------------------------------------------------------------------------
(* evaluate_active_scope *)

\* _domain_denied
DomainDenied(name, rules) ==
    \E r \in rules : \/ r.type = "DOMAIN_EXACT" /\ name = r.name
                     \/ r.type = "DOMAIN_SUFFIX" /\ IsSuffix(r.name, name)

\* _ip_denied
IpDenied(a, rules) == \E r \in rules : r.type \in {"IP", "CIDR"} /\ a \in Hosts(r.net)

\* _within_any_cidr
WithinAnyCidr(a, ranges) == \E c \in ranges : a \in Hosts(c)

\* _within_public_boundary: a boundary of names admits whatever its names resolve to
WithinPublicBoundary(t, a, boundaries) ==
    \E b \in boundaries :
        \/ b.kind = "DOMAIN" /\ t.kind = "DOMAIN" /\ IsSuffix(b.name, t.name)
        \/ b.kind \in {"IPV4", "CIDR"} /\ a \in Hosts(b.net)

\* literal_ips: of a network, its first and its last address
LiteralIps(t) ==
    IF t.kind = "DOMAIN" THEN {} ELSE {t.net.net, t.net.net + Size(t.net.len) - 1}

\* matched_deny_rule is set
Denied(t, resolved, rules) ==
    \/ t.kind = "DOMAIN" /\ DomainDenied(t.name, rules)
    \/ \E a \in LiteralIps(t) \cup resolved : IpDenied(a, rules)

BadContained(t, ranges) == \A a \in LiteralIps(t) : WithinAnyCidr(a, ranges)

\* subnet_of one of the private ranges
Contained(t, ranges) == \E c \in ranges : Hosts(t.net) \subseteq Hosts(c)

\* load_public_boundaries: the public targets that are not archived
Boundaries == {x.target : x \in {y \in targets : y.public /\ y.active}}

Allowed(t, resolved) ==
    /\ ~Denied(t, resolved, deny)
    /\ t.kind = "DOMAIN" => resolved # {}
    /\ t.kind = "CIDR" => Contained(t, private)
    /\ \A a \in resolved \cup (IF t.kind = "CIDR" THEN {} ELSE LiteralIps(t)) :
          WithinAnyCidr(a, private) \/ WithinPublicBoundary(t, a, Boundaries)

\* resolve_domain: whatever the resolver answers
Lookup == UNION {kSubset(k, Address) : k \in 0..MaxResolved}

\* evaluate_target_scope: only a domain is resolved
Resolutions(t) == IF t.kind = "DOMAIN" THEN Lookup ELSE {{}}

---------------------------------------------------------------------------
(* The tables. *)

ScopeInit == private = {} /\ deny = Builtin /\ targets = {}

AddPrivateCidr(c) ==
    /\ c \notin private /\ Cardinality(private) < MaxRanges
    /\ private' = private \cup {c}
    /\ UNCHANGED <<deny, targets>>

RemovePrivateCidr(c) ==
    /\ c \in private /\ private' = private \ {c}
    /\ UNCHANGED <<deny, targets>>

AddDenyRule(r) ==
    /\ r \notin deny /\ Cardinality(deny \ Builtin) < MaxRules
    /\ deny' = deny \cup {r}
    /\ UNCHANGED <<private, targets>>

\* A built-in rule cannot be removed.
RemoveDenyRule(r) ==
    /\ r \in deny \ Builtin /\ deny' = deny \ {r}
    /\ UNCHANGED <<private, targets>>

\* Public or not, a target is refused only for a deny rule: it may be out of scope.
CreateTarget(t, public) ==
    /\ \A x \in targets : x.target # t
    /\ Cardinality(targets) < MaxTargets
    /\ \E resolved \in Resolutions(t) : ~Denied(t, resolved, deny)
    /\ targets' = targets \cup {[target |-> t, public |-> public, active |-> TRUE]}
    /\ UNCHANGED <<private, deny>>

ArchiveTarget(x) ==
    /\ x \in targets /\ targets' = (targets \ {x}) \cup {[x EXCEPT !.active = FALSE]}
    /\ UNCHANGED <<private, deny>>

DeleteTarget(x) ==
    /\ x \in targets /\ targets' = targets \ {x}
    /\ UNCHANGED <<private, deny>>

ScopeNext ==
    \/ \E c \in PrivateRange : AddPrivateCidr(c) \/ RemovePrivateCidr(c)
    \/ \E r \in DenyRule : AddDenyRule(r) \/ RemoveDenyRule(r)
    \/ \E t \in Target, public \in BOOLEAN : CreateTarget(t, public)
    \/ \E x \in targets : ArchiveTarget(x) \/ DeleteTarget(x)

ScopeSpec == ScopeInit /\ [][ScopeNext]_scopeVars

---------------------------------------------------------------------------
(* Properties. *)

\* Every address an active scan of t may send to.
Reach(t, resolved) == IF t.kind = "DOMAIN" THEN resolved ELSE Hosts(t.net)

Below(n, above) == \E k \in 1..Len(n) : SubSeq(n, k, Len(n)) = above

\* The addresses a deny rule stands for, and the names.
RuleAddresses(r) == IF r.type \in {"IP", "CIDR"} THEN Hosts(r.net) ELSE {}

RuleNames(r) ==
    {n \in HostName : \/ r.type = "DOMAIN_EXACT" /\ n = r.name
                      \/ r.type = "DOMAIN_SUFFIX" /\ Below(n, r.name)}

\* The names and addresses that some row approves.
BelowApproved(name) ==
    \E b \in Boundaries : b.kind = "DOMAIN" /\ Below(name, b.name)

Approved == (UNION {Hosts(c) : c \in private}) \cup (UNION {Reach(b, {}) : b \in Boundaries})

\* Whatever the tables hold, an active scan that is allowed has somewhere to go; it reaches
\* no address outside the approved ranges and boundaries, unless its name is an approved
\* one or below it; a network stays inside the private space; and no rule is overridden by
\* anything that is approved (evaluate_active_scope).  Of a network the rules are looked at
\* only at its two ends, and so says the last conjunct.
ScopeSound ==
    \A t \in Target : \A resolved \in Resolutions(t) :
        Allowed(t, resolved) =>
            /\ Reach(t, resolved) # {}
            /\ \/ Reach(t, resolved) \subseteq Approved
               \/ t.kind = "DOMAIN" /\ BelowApproved(t.name)
            /\ t.kind = "CIDR" => Reach(t, {}) \subseteq UNION {Hosts(b) : b \in PrivateBlocks}
            /\ \A r \in deny :
                  /\ t.kind = "DOMAIN" => t.name \notin RuleNames(r)
                  /\ t.kind # "CIDR" => Reach(t, resolved) \cap RuleAddresses(r) = {}
                  /\ t.kind = "CIDR" => RuleAddresses(r) \cap
                        {t.net.net, t.net.net + Size(t.net.len) - 1} = {}

===========================================================================
