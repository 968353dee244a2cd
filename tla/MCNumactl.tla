----------------------------- MODULE MCNumactl -----------------------------
(* Shared objects and kernels for checking Numactl with TLC. *)
EXTENDS Numactl

\* An object of n pages, all absent or all on one node, of which the first
\* may have a policy from an earlier command.
Object(n, h, pl) ==
    [exists |-> TRUE, size |-> n * PageSize,
     pol |-> [p \in Pages |-> IF p = 0 THEN pl ELSE Default],
     home |-> [p \in Pages |-> IF p < n THEN h ELSE None]]

EveryPage == MaxObject \div PageSize

\* Neither object exists, or one of them does: a short one still untouched, or a
\* long one that has pages and a policy.
SomeObjects ==
    {[o \in Objects |-> Absent]} \cup
    {[o \in Objects |-> IF o = x THEN y ELSE Absent] :
        x \in Objects,
        y \in {Object(1, None, Default), Object(EveryPage, 0, Policy("BIND", {0})),
               Object(EveryPage, None, Default)}}

AllFeatures == {"many", "balancing", "weighted"}
=============================================================================
