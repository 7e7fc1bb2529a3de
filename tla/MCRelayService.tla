--------------------------- MODULE MCRelayService ---------------------------
(* Relays for TLC: who is enrolled, which apps are paired, what comes.      *)
EXTENDS RelayService, TLC

CONSTANTS k1, k2, a1, a2, a3, f1, f2

Nothing == [t \in Traffic |-> 0]

\* Two new Agents enrol in the open.
Enrolment == [mode |-> "open", enrolled |-> {}, apps |-> {}, loops |-> {},
              left |-> [Nothing EXCEPT !["activate"] = 2, !["claim"] = 2, !["register"] = 1,
                                       !["fault"] = 1]]

\* Tickets: two new Agents, and an Agent that pairs another app.
TicketedEnrolment == [Enrolment EXCEPT !.mode = "ticket",
    !.left = [Nothing EXCEPT !["activate"] = 3, !["claim"] = 3, !["expiry"] = 1]]

\* A closed relay: only the enrolled Agent pairs, up to its limit; apps are removed.
ClosedRelay == [Enrolment EXCEPT !.mode = "closed", !.enrolled = {k1}, !.apps = {<<k1, a1>>},
    !.left = [Nothing EXCEPT !["activate"] = 2, !["claim"] = 2, !["revoke"] = 1, !["own"] = 1,
                             !["reset"] = 1]]

\* The apps of two Agents of one phone compete for its tokens.
TokenContest == [Enrolment EXCEPT !.enrolled = {k1, k2},
    !.apps = {<<k1, a1>>, <<k2, a2>>, <<k1, f1>>},
    !.left = [Nothing EXCEPT !["own"] = 1, !["register"] = 1, !["reset"] = 1, !["fault"] = 1]]

\* An Agent is lost and comes back; FCM drops the token of its app.
Presence == [Enrolment EXCEPT !.enrolled = {k1}, !.apps = {<<k1, f1>>},
    !.loops = {"heartbeat", "sweep"},
    !.left = [Nothing EXCEPT !["loss"] = 2, !["uninstall"] = 1, !["fault"] = 1]]

\* Both Agents are lost.
TwoLost == [Presence EXCEPT !.enrolled = {k1, k2}, !.apps = {},
    !.left = [Nothing EXCEPT !["loss"] = 2]]

\* A notice fails on one day and is repeated on the next.
Repeated == [Presence EXCEPT !.loops = {"sweep"},
    !.left = [Nothing EXCEPT !["loss"] = 1, !["count"] = 2, !["midnight"] = 1, !["fault"] = 1]]

\* Requests of an Agent are counted around midnight.
Midnights == [Presence EXCEPT !.loops = {"heartbeat", "session"}, !.apps = {},
    !.left = [Nothing EXCEPT !["count"] = 2, !["midnight"] = 1, !["report"] = 1]]

\* Commands and snapshots for two apps.
Sessions == [Presence EXCEPT !.apps = {<<k1, a1>>, <<k1, a2>>}, !.loops = {"session"},
    !.left = [Nothing EXCEPT !["ping"] = 1, !["late"] = 1, !["snapshot"] = 1, !["reset"] = 1,
                             !["fault"] = 1]]

AllCases == {Enrolment, TicketedEnrolment, ClosedRelay, TokenContest, Presence, TwoLost, Repeated,
             Midnights, Sessions}

\* An Agent that enrolled with a ticket pairs another app.
TicketCases == {TicketedEnrolment}
=============================================================================
