---------------------------- MODULE MCDealRecords ----------------------------
(***************************************************************************)
(* An instance of DealRecords for TLC.  Six mixes of requests share it,    *)
(* one per kind of thing the desk does: each keeps to the requests it      *)
(* names and to the rows those are about.                                  *)
(***************************************************************************)
EXTENDS DealRecords, TLC

CONSTANTS OneContact, OneDeal

VARIABLE mix

Binning == {"archive_deal", "restore_deal"}

OpsOf(m) ==
    CASE m = "people" -> Binning \cup
            {"submit_lead", "archive_contact", "restore_contact"}
      [] m = "phones" -> Binning \cup
            {"submit_lead", "archive_contact", "restore_contact", "update_contact"}
      [] m = "guests" -> Binning \cup
            {"submit_lead", "archive_contact", "restore_contact",
             "add_guest", "archive_guest", "restore_guest"}
      [] m = "orders" -> Binning \cup
            {"submit_lead", "create_order", "mark_order", "archive_order", "restore_order"}
      [] m = "cars" -> {"submit_lead", "create_deal", "change_status", "set_vehicles"}
      [] m = "leads" -> Binning \cup {"submit_lead"}

Used(d) == deal[d].life # "none" \/ \E s \in Sessions : call[s].d = d

InMix ==
    /\ \A s \in Sessions : call[s].op \in OpsOf(mix) \cup {"idle"}
    /\ mix # "people" => \A p \in Papers : paper[p].life = "none"
    /\ mix \notin {"cars", "leads"} =>
         /\ \A s \in Sessions : call[s].op = "submit_lead" => call[s].new = NoRow
         /\ \A k \in Cars : car[k] = "for_sale"
    /\ mix \in {"orders", "cars", "leads"} =>
         \A c \in Contacts \ {OneContact} :
            contact[c].life = "none" /\ \A s \in Sessions : call[s].c # c
    /\ mix \in {"orders", "cars"} => \A d \in Deals \ {OneDeal} : ~Used(d)

MixedInit == Init /\ mix \in {"people", "phones", "guests", "orders", "cars", "leads"}

MixedSpec == MixedInit /\ [][Next /\ UNCHANGED mix /\ InMix']_<<vars, mix>>

Symmetry == Permutations(Sessions) \cup Permutations(Cars)
==============================================================================
