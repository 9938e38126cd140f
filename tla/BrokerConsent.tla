--------------------------- MODULE BrokerConsent ----------------------------
(***************************************************************************)
(* Broker implements Consent: whatever order grants are issued, charged,   *)
(* pruned, revoked and forgotten in, no target is used under a scope by a  *)
(* program more often than the user agreed to.                             *)
(***************************************************************************)
EXTENDS Broker, FiniteSets

\* The counts below are of finitely many requests: a broker has answered no
\* more at any time.
ASSUME RequestAssumption == IsFiniteSet(Request)

\* The uses the answer to r's own prompt bought, once its grant is issued.
Bought(r) ==
  IF allowed[r] = NoGrant \/ decision[r] \notin Allow THEN {}
  ELSE IF decision[r] = "window" /\ want[r].scope \notin Disclosing
         THEN {r} \X (1 .. WindowUses)
         ELSE {r} \X {1}

GrantedUses ==
  [k \in Access |->
     Cardinality(UNION {Bought(r) : r \in {q \in Request : want[q] = k}})]

RequestsLetThrough ==
  [k \in Access |->
     Cardinality({r \in Request : want[r] = k /\ allowed[r] # NoGrant})]

C == INSTANCE Consent WITH
       Key <- Access,
       Single <- {k \in Access : k.scope \in Disclosing},
       Unshared <- {k \in Access : k.client = Unidentified},
       MaxUses <- WindowUses,
       granted <- GrantedUses,
       used <- RequestsLetThrough

\* Every step of the broker is an answer, a use within what was answered, or
\* nothing the user's consent is about.
ImplementsConsent == C!Spec

=============================================================================
