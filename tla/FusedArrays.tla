------------------------------ MODULE FusedArrays ------------------------------
(***************************************************************************)
(* The fused structures whose backup is an array, side by side: the        *)
(* circular queue, which is this module's own by EXTENDS, the stack and    *)
(* the array.  They share the XOR of slices and nothing else, and each is  *)
(* run by itself: a behaviour chooses one of them in the beginning.        *)
(***************************************************************************)
EXTENDS FusedQueue

CONSTANTS
    MaxElements,  \* bound: elements in all the stacks
    Given,        \* bound: what slices hold in the beginning
    MaxLength     \* bound: elements of a slice

\* Elements of stacks and slices may be zero.  Lengths are machine words too.
WithZero == Values \cup {0}

ASSUME ArraysAssumption ==
    /\ MaxElements \in Nat
    /\ Given \subseteq WithZero
    /\ MaxLength \in Nat /\ 0 .. MaxLength \subseteq Word

VARIABLES
    structure,           \* the structure that runs
    stacks, stackFusion, tops,
    slices, sliceFusion, lengthParity

stackVars == <<stacks, stackFusion, tops>>
arrayVars == <<slices, sliceFusion, lengthParity>>
allVars == <<vars, structure, stackVars, arrayVars>>

Stack == INSTANCE FusedStack WITH
    Values <- WithZero, sources <- stacks, fusion <- stackFusion

Array == INSTANCE FusedArray WITH
    Values <- WithZero, sources <- slices, fusion <- sliceFusion

InitOne ==
    /\ structure \in {"ring", "stack", "array"}
    /\ Init
    /\ Stack!Init
    /\ Array!Init
    /\ structure # "array" => slices = [s \in Source |-> <<>>]

NextOne ==
    /\ \/ structure = "ring" /\ Next /\ UNCHANGED <<stackVars, arrayVars>>
       \/ structure = "stack" /\ Stack!Next /\ UNCHANGED <<vars, arrayVars>>
       \/ structure = "array" /\ Array!Next /\ UNCHANGED <<vars, stackVars>>
    /\ UNCHANGED structure

SpecOne == InitOne /\ [][NextOne]_allVars

-----------------------------------------------------------------------------
\* After any calls each backup is the XOR of what its sources hold now and of
\* nothing else: no slot keeps a dequeued element, no word of the array is above
\* every stack, none that is or became zero is missing below one.
FusionsAreXor ==
    /\ FusionIsXor
    /\ Stack!FusionIsXor
    /\ Array!FusionIsXor

\* Whichever source is lost, Recover returns it from the backup and the others,
\* however windows of rings overlap, stacks differ in height and slices in
\* length.
EveryArrayRecovers ==
    /\ RecoversEverySource
    /\ Stack!RecoversEverySource
    /\ Array!RecoversEverySource
=============================================================================
