------------------------------- MODULE MCPush -------------------------------
(* Two people, with two pages that may exist from the start; or with the     *)
(* channel of one of them and a chat of both; or with an iPhone and an       *)
(* Android phone.                                                            *)
EXTENDS Push

CONSTANTS alice, bob, own, chat

MCAccount == {alice, bob}

MCOwn == {<<own, bob>>}

MCSubscribable == MCOwn \cup {<<chat, alice>>, <<chat, bob>>}
=============================================================================
