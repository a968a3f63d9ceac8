---------------------------- MODULE MCCandidates -----------------------------
(* A primary incident and three that share the pool, which cannot pay for     *)
(* all of them; time in ticks of half a second.                               *)
EXTENDS Candidates

T(action, targets, depends) == [action |-> action, targets |-> targets, depends |-> depends]

MCTarget == {"incident", "flight"}
MCAvailable == {"check_connections", "notify_passengers"}
MCPlaybook == << T("check_connections", MCTarget, {}),
                 T("notify_passengers", MCTarget, {"check_connections"}) >>

\* A proposal of which a part is kept, its two tasks waiting for each other, and one of which
\* nothing is.
MCMixed == << T("notify_passengers", {"flight"}, {"check_connections", "notify_passengers",
                                                  "swap_aircraft"}),
              T("notify_passengers", {"flight"}, {}),
              T("swap_aircraft", {"flight"}, {}),
              T("check_connections", {"flight:7"}, {}),
              T("check_connections", {}, {"notify_passengers"}) >>
MCVain == << T("swap_aircraft", {"flight"}, {}) >>

R(status, body, finish, json, errors, usage, tasks) ==
    [status |-> status, body |-> body, finish |-> finish, json |-> json,
     errors |-> errors, usage |-> usage, tasks |-> tasks]
Answer(tasks, errors) == R(200, "read", "stop", TRUE, errors, TRUE, tasks)

MCReply == { Answer(MCMixed, {"extra_forbidden"}), Answer(MCVain, {}),
             Answer(MCMixed, {"extra_forbidden", "enum"}),
             R(0, "none", "none", FALSE, {}, FALSE, <<>>),
             R(404, "none", "none", FALSE, {}, FALSE, <<>>),
             R(413, "none", "none", FALSE, {}, FALSE, <<>>),
             R(503, "none", "none", FALSE, {}, FALSE, <<>>),
             R(200, "provider_envelope", "none", FALSE, {}, FALSE, <<>>),
             R(200, "read", "length", FALSE, {}, TRUE, <<>>),
             R(200, "read", "stop", FALSE, {}, TRUE, <<>>),
             R(200, "read", "stop", TRUE, {}, FALSE, MCMixed) }
=============================================================================
