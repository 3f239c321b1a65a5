------------------------------- MODULE ApiClock --------------------------------
(* What the modules of the HTTP interface share: requests and the time. *)
EXTENDS Naturals

CONSTANTS
    Requests,   \* HTTP requests, each sent once
    MaxTime     \* bound: last instant, in units the rates and lifetimes are given in

VARIABLE now

Tick ==
    /\ now < MaxTime
    /\ now' = now + 1
================================================================================
