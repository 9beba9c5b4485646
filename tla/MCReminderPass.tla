---------------------------- MODULE MCReminderPass ----------------------------
(***************************************************************************)
(* The mails a customer gets of an invoice, for TLC: the reminders of the  *)
(* daily pass, and PortalLinks in three mixes of requests.                 *)
(***************************************************************************)
EXTENDS ReminderPass, PortalLinks, TLC

CONSTANTS w1, w2, i1, i2, t1

VARIABLE part

\* reminder1 of i1 falls on the first day, its reminder3 on the second, when that
\* of i2 is due as well.
TwoDays == i1 :> (1 :> 1 @@ 3 :> 2) @@ i2 :> (3 :> 2)

OpsOf(m) ==
    CASE m = "links"  -> {"collect", "resend", "derive", "add", "mail"}
      [] m = "views"  -> {"collect", "mail", "add", "receipt"}
      [] m = "copies" -> {"collect", "sign", "render"}

InMix ==
    /\ \A r \in Requests : request[r].op \in OpsOf(part) \cup {"idle"}
    /\ part # "copies" => doc.rev = 1 /\ doc.status # "closed"
    /\ part = "views" => \A k \in Keys : link[k].state = "live" => link[k].to = Billed

MixedInit ==
    /\ PassInit /\ PortalInit
    /\ part \in {"reminders", "links", "views", "copies"}
    /\ doc.terms = t1

MixedNext ==
    /\ UNCHANGED part
    /\ IF part = "reminders"
       THEN PassNext /\ UNCHANGED portalVars
       ELSE PortalNext /\ InMix' /\ UNCHANGED passVars

MixedSpec == MixedInit /\ [][MixedNext]_<<passVars, portalVars, part>>

Symmetry == Permutations({w1, w2}) \cup Permutations(Requests)
=============================================================================
