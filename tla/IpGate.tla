------------------------------- MODULE IpGate -------------------------------
(***************************************************************************)
(* The address gate in front of the back-office (src/proxy.ts,             *)
(* src/security: clientIp, ipMatch, ipAccessGuard, adminIpEnforcement;     *)
(* collections/AdminIpRules.ts).                                           *)
(*                                                                         *)
(* Administrators edit a list of rules with windows of validity; every     *)
(* guarded request is decided afresh from the rules and from the client's  *)
(* address, which is taken from the forwarding header as far as the number *)
(* of proxies in front of the program vouches for it.                      *)
(***************************************************************************)
EXTENDS Naturals, Sequences, FiniteSets, SequencesExt

CONSTANTS
  Addresses,   \* client addresses
  Patterns,    \* what a rule may name: sets of addresses
  Proxies,     \* proxies in front of the program, each appends its peer
  Hops,        \* TRUSTED_PROXY_HOPS
  Production,  \* NODE_ENV
  RuleSlots,   \* rows of adminIpRules
  LastTick,    \* bound of the exploration: the clock stops here
  NoAddress

ASSUME GateAssumption ==
  /\ Patterns \subseteq SUBSET Addresses /\ Addresses \in Patterns
  /\ Proxies \in Nat /\ Hops \in Nat /\ Production \in BOOLEAN
  /\ NoAddress \notin Addresses /\ IsFiniteSet(RuleSlots) /\ LastTick \in Nat

VARIABLES
  ipRules,  \* rules by row; <<>> is a free row
  tick,     \* the clock
  guarding  \* enforcement is switched on, and the admin site exists

gateVars == <<ipRules, tick, guarding>>

Star == Addresses

\* A rule as the form validates it: valid-to is later than valid-from.
IpRule ==
  {r \in [pattern: Patterns, type: {"allow", "block"}, from: 0..LastTick, to: 0..LastTick,
          active: BOOLEAN] : r.from < r.to}

Given == {s \in RuleSlots : ipRules[s] # <<>>}

-----------------------------------------------------------------------------
(* The client's address.                                                   *)

\* The header as it arrives: what the client sent, then one entry a proxy, the
\* first of which is the client.
Forwarded(sent, client) ==
  sent \o [i \in 1..Proxies |-> IF i = 1 THEN client ELSE NoAddress]

\* Mutant: the leftmost entry is believed.
Believed_First(header) == IF Hops = 0 \/ header = <<>> THEN NoAddress ELSE header[1]

\* resolveClientIp: the Hops-th entry from the right, if there is one.
Believed(header) ==
  IF Hops = 0 \/ Len(header) < Hops THEN NoAddress ELSE header[Len(header) + 1 - Hops]

-----------------------------------------------------------------------------
(* The decision.                                                           *)

\* isWithinWindow, of the rules of the admin site.
InForce == {ipRules[s] : s \in {g \in Given : /\ ipRules[g].active
                                              /\ tick \in ipRules[g].from..ipRules[g].to}}

\* ipMatches: no address matches the bare star only.
Matches(r, a) == IF a = NoAddress THEN r.pattern = Star ELSE a \in r.pattern

Armed == InForce # {}

Unrestricted ==
  /\ \A r \in InForce : r.type = "allow"
  /\ \E r \in InForce : r.type = "allow" /\ r.pattern = Star

\* isIpAllowedForAdmin: open without any rule, else block, allow, deny.
ByRules(a) ==
  \/ Given = {}
  \/ /\ \A r \in InForce : r.type = "block" => ~Matches(r, a)
     /\ \E r \in InForce : r.type = "allow" /\ Matches(r, a)

\* evaluateAdminIpRequest; failed: the rules could not be read.
Admitted(a, failed) ==
  \/ ~guarding
  \/ /\ ~failed
     /\ IF a # NoAddress THEN ByRules(a)
        ELSE ~Armed \/ Given = {} \/ Unrestricted \/ ~Production

\* classifyAdminPath and the proxy: exempt paths are let through.
Passes(path, a, failed) == path = "exempt" \/ Admitted(a, failed)

-----------------------------------------------------------------------------
(* Actions.                                                                *)

\* An administrator whom the gate admits, or the seed, edits a rule.
PutRule(s) ==
  /\ \E r \in IpRule : ipRules' = [ipRules EXCEPT ![s] = r]
  /\ UNCHANGED <<tick, guarding>>

DropRule(s) ==
  /\ s \in Given
  /\ ipRules' = [ipRules EXCEPT ![s] = <<>>]
  /\ UNCHANGED <<tick, guarding>>

GateTick == tick < LastTick /\ tick' = tick + 1 /\ UNCHANGED <<ipRules, guarding>>

\* The operator's recovery: ADMIN_IP_ENFORCEMENT, and a restart.
SwitchGuard == guarding' = ~guarding /\ UNCHANGED <<ipRules, tick>>

GateInit ==
  /\ ipRules = [s \in RuleSlots |-> <<>>]
  /\ tick = 0 /\ guarding = TRUE

GateNext ==
  \/ \E s \in RuleSlots : PutRule(s) \/ DropRule(s)
  \/ GateTick
  \/ SwitchGuard

GateSpec == GateInit /\ [][GateNext]_gateVars

-----------------------------------------------------------------------------
(* Properties.                                                             *)

\* When the operator counted the proxies right, the gate decides on the address
\* the outermost proxy saw: what a client writes into the header itself neither
\* lets it in nor keeps it out (clientIp.ts).
HeaderCannotLie ==
  guarding /\ Hops > 0 /\ Hops = Proxies =>
    \A sent \in SeqOf(Addresses, 2), client \in Addresses :
      Admitted(Believed(Forwarded(sent, client)), FALSE) <=> ByRules(client)

\* ipAccessGuard.ts, unrestricted: in production, when rules are in force a
\* client whose address nobody vouches for is let in only if every address
\* would be.
NamelessOnlyIfAll ==
  guarding /\ Production /\ Armed /\ Admitted(NoAddress, FALSE) =>
    \A a \in Addresses : Admitted(a, FALSE)

\* An address that a rule in force blocks never gets in, and one that nothing
\* in force allows does only while the list is empty (default-deny), or the
\* gate is off; when the rules cannot be read nobody does (fail closed).
DefaultDeny ==
  guarding =>
    \A a \in Addresses :
      /\ ~Admitted(a, TRUE)
      /\ Admitted(a, FALSE) /\ Given # {} =>
           /\ \E r \in InForce : r.type = "allow" /\ a \in r.pattern
           /\ ~\E r \in InForce : r.type = "block" /\ a \in r.pattern

\* A rule list that is not empty keeps whom it admits when an allow rule joins
\* it, or when a block rule is dropped: no edit of that kind can lock out the
\* administrator who makes it.
WideningKeepsAll ==
  [][\A s \in RuleSlots, a \in Addresses :
       /\ UNCHANGED <<tick, guarding>> /\ Given # {} /\ Given' # {}
       /\ \/ ipRules[s] = <<>> /\ ipRules'[s] # <<>> /\ ipRules'[s].type = "allow"
          \/ ipRules[s] # <<>> /\ ipRules[s].type = "block" /\ ipRules'[s] = <<>>
       /\ Admitted(a, FALSE)
       => Admitted(a, FALSE)'
    ]_gateVars

\* The gate lets in whom the rules in force allow and nobody else, whatever headers
\* are sent, and widening the rules locks nobody out (src/security).
OnlyAllowedPass ==
  [](HeaderCannotLie /\ NamelessOnlyIfAll /\ DefaultDeny) /\ WideningKeepsAll

\* adminIpEnforcement.ts: a list without a rule in force "never blocks either
\* way".
UnarmedNeverBlocks ==
  ~Armed => \A a \in Addresses \cup {NoAddress} : Admitted(a, FALSE)
=============================================================================
