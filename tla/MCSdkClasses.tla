----------------------------- MODULE MCSdkClasses -----------------------------
(* A tree of four leaves, so that leaf indexes have two bits, and three events, *)
(* so that ties and a clock set back occur together; profiles on both sides of *)
(* every step of every scale, users whose birthday is today or tomorrow, and   *)
(* every other field given or not.                                            *)
EXTENDS SdkClasses

CONSTANTS w1, w2

Event(type, wallet, status, level, score, amount) ==
    [type |-> type, wallet |-> wallet, status |-> status, level |-> level,
     score |-> score, amount |-> amount]

MCEvents ==
    {Event("VERIFICATION_COMPLETE", w1, "VERIFIED", "none", 0, 0),
     Event("VERIFICATION_COMPLETE", w2, "REJECTED", "HIGH", 85, 0),
     Event("TRANSACTION", w1, "none", "HIGH", 70, 2),
     Event("TRANSACTION", w1, "none", "CRITICAL", 90, 3),
     Event("ADMIN", w2, "none", "none", 0, 0)}

MCValues == {"a", "b"}

Profile(age, volume, count, interactions, average, observed, patterns) ==
    [age |-> age, volume |-> volume, count |-> count, interactions |-> interactions,
     average |-> average, observed |-> observed, patterns |-> patterns]

\* One scale is walked while the others stand at their lowest or at a high risk.
MCProfiles ==
    {Profile(age, 500, 90, 0, 5, FALSE, <<>>) : age \in {29, 30, 89, 90, 179, 180, 364, 365}}
    \cup {Profile(20, volume, 20000, 60, 20000, FALSE, <<>>) :
             volume \in {1000, 1001, 10001, 50001, 100000, 100001}}
    \cup {Profile(400, 500, count, 0, 5, FALSE, <<>>) : count \in {100, 101, 1001, 5001, 10001}}
    \cup {Profile(20, 200000, 90, n, 500, FALSE, <<>>) : n \in {0, 1, 5, 6, 10, 11, 20, 21, 50, 51}}
    \cup {Profile(400, 60000, 90, 60, size, FALSE, <<>>) :
             size \in {100, 101, 1001, 5001, 10000, 10001}}
    \cup {Profile(30, 9999, 5099, 9, 1, TRUE, patterns) :
             patterns \in {<<"staking">>, <<"regular-transactions", "staking">>,
                           <<"defi-interactions", "token-swaps", "nft-trading">>}}
    \cup {Profile(400, 9000, 6000, 3, 1, TRUE, <<>>)}

MCToday == [year |-> 2024, month |-> 3, day |-> 15]

Born(year, day) == [year |-> year, month |-> 3, day |-> day]

\* Everything in order, and the users that differ from that in one field.
GoodUser ==
    [wallet |-> w1, birth |-> Born(1990, 1), country |-> "US", documents |-> TRUE,
     accredited |-> TRUE, aml |-> TRUE]

MCUsers ==
    {GoodUser}
    \cup {[GoodUser EXCEPT !.birth = b] :
             b \in {Missing, Born(2006, 15), Born(2006, 16), Born(2003, 15), Born(2003, 16),
                    Born(2011, 15), Born(2011, 16)}}
    \cup {[GoodUser EXCEPT !.country = c] : c \in {Missing, "KP", "CU", "VN"}}
    \cup {[GoodUser EXCEPT !.documents = FALSE], [GoodUser EXCEPT !.accredited = FALSE],
          [GoodUser EXCEPT !.aml = FALSE], [GoodUser EXCEPT !.wallet = w2],
          [GoodUser EXCEPT !.documents = FALSE, !.aml = FALSE, !.country = Missing]}

MCRules ==
    {<<Rule("white", "WHITELIST", 0, {w1}, {}), Country("none", {}), Documents("papers", 0)>>,
     <<Rule("black", "BLACKLIST", 0, {}, {w2}), Risk("risk", 70),
       [Aml("aml") EXCEPT !.enabled = FALSE]>>}

MCCustomIds == {"CUSTOM", "NFT_MARKETPLACE"}

MCThresholds == {[lowMax |-> 20, mediumMax |-> 40], [lowMax |-> 90, mediumMax |-> 50]}
=============================================================================
