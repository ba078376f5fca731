------------------------------ MODULE MCMedia ------------------------------
(***************************************************************************)
(* A small instance of Media for TLC.                                      *)
(***************************************************************************)
EXTENDS Media, Naturals

CONSTANTS u1, k1, x1, c1, p1, p2

OneUser == {u1}
OneCommunity == {k1}
OnePost == {x1}
OneComment == {c1}
TwoTxns == {p1, p2}
ThreeAssets == {1, 2, 3}

\* The storage gives its names in their order.
InOrder == \A a, b \in Assets : a < b /\ asset'[b] # "new" => asset'[a] # "new"

\* Two requests may upload one asset each to any document; a third asset is
\* there for an account alone, which has a picture that both replace.
ThirdIsForAccounts ==
    asset'[3] # "new" =>
        /\ \A d \in Docs \ Users : db'[d] = Unborn
        /\ \A p \in Txns : req'[p].kind \in {"profile", "removal"}

\* A post or a comment.
OneContent ==
    Cardinality({x \in Contents : db'[x] # Unborn \/ \E p \in Txns : req'[p].doc = x}) <= 1

MCSpec == Init /\ [][Next /\ InOrder /\ ThirdIsForAccounts /\ OneContent]_vars /\ Fairness
=============================================================================
