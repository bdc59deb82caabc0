------------------------------ MODULE MCBasket ------------------------------
(***************************************************************************)
(* Two markets of two tokens, baskets of two legs.  Long buys both sides   *)
(* of a market, Cross the YES of both markets in different sizes, Short    *)
(* splits a market and sells both sides, Half splits it and sells one side *)
(* while buying in the other market, Deep takes two levels of one book;    *)
(* Kept is a Long held to resolution and Big has a leg above the cap.      *)
(***************************************************************************)
EXTENDS Basket, TLC

CONSTANTS m1, m2, y1, n1, y2, n2

MCMarket == {m1, m2}
MCToken == {y1, n1, y2, n2}
MCPair == (m1 :> <<y1, n1>>) @@ (m2 :> <<y2, n2>>)

Two(a, b) == (1 :> a) @@ (2 :> b)
Splits(a, b) == (m1 :> a) @@ (m2 :> b)
OppWith(tokens, buys, qtys, pxs, splits, keep) ==
  [token |-> tokens, buy |-> buys, qty |-> qtys, px |-> pxs, split |-> splits, keep |-> keep]

Long  == OppWith(Two(y1, n1), Two(TRUE, TRUE), Two(2, 2), Two(1, 1), Splits(0, 0), FALSE)
Cross == OppWith(Two(y1, y2), Two(TRUE, TRUE), Two(2, 3), Two(1, 1), Splits(0, 0), FALSE)
Short == OppWith(Two(y1, n1), Two(FALSE, FALSE), Two(2, 2), Two(1, 1), Splits(2, 0), FALSE)
Half  == OppWith(Two(y1, y2), Two(FALSE, TRUE), Two(2, 2), Two(1, 1), Splits(2, 0), FALSE)
Deep  == OppWith(Two(y1, y1), Two(TRUE, TRUE), Two(1, 1), Two(1, 1), Splits(0, 0), FALSE)
Kept  == OppWith(Two(y1, n1), Two(TRUE, TRUE), Two(2, 2), Two(1, 1), Splits(0, 0), TRUE)
Big   == OppWith(Two(y1, n1), Two(TRUE, TRUE), Two(2, 2), Two(1, 2), Splits(0, 0), FALSE)

AllOpps == {Long, Cross, Short, Half, Deep, Kept, Big}
=============================================================================
