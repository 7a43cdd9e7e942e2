----------------------------- MODULE FieldProvider -----------------------------
(***************************************************************************)
(* ShipActsFieldProvider: what the track fit asks for the magnetic field.    *)
(* A lookup never fails: wherever the field map cannot be asked, or does not *)
(* answer with numbers, the field is zero.                                 *)
(*                                                                         *)
(* The evaluator is called between two groups of guards, so a lookup has     *)
(* three steps.  Lengths are metres.  An infinite coordinate is a number     *)
(* beyond all bounds; NaN compares false with everything.                  *)
(***************************************************************************)
EXTENDS Integers

CONSTANTS Coordinates, \* coordinates a caller may ask for
          Infinity,    \* |x| = Infinity: not a finite number
          NaN

Axes == {"x", "y", "z"}

ASSUME CoordinateAssumption ==
    /\ Infinity \in Int /\ Infinity > 100
    /\ NaN \notin Int
    /\ \A c \in Coordinates : c = NaN \/ c \in -Infinity .. Infinity

\* FieldBoundsM, closed on all sides.
Lower == [a \in Axes |-> IF a = "z" THEN 0 ELSE -4]
Upper == [a \in Axes |-> IF a = "z" THEN 100 ELSE 4]

Finite(c) == c # NaN /\ c \notin {-Infinity, Infinity}
Below(a, b) == a # NaN /\ b # NaN /\ a < b

\* A component of a field is zero, a number of tesla of the map, or not finite.
Zero == [a \in Axes |-> "zero"]
Answers == [Axes -> {"tesla", "notFinite"}]

VARIABLES
    evaluator, \* the provider was given one
    position,  \* of the lookup
    lookup,    \* "idle", "called", "asking" the evaluator; "refused" without asking
               \* it, "answered" or "caught" after it
    field      \* the vector the lookup returned

fieldVars == <<evaluator, position, lookup, field>>

FieldInit ==
    /\ evaluator \in BOOLEAN
    /\ position = [a \in Axes |-> 0]
    /\ lookup = "idle"
    /\ field = Zero

\* getField
GetField(p) ==
    /\ lookup = "idle"
    /\ lookup' = "called"
    /\ position' = p
    /\ UNCHANGED <<evaluator, field>>

Outside(p) == \E a \in Axes : Below(p[a], Lower[a]) \/ Below(Upper[a], p[a])

\* Only the bounds are tested.
Answerable_BoundsOnly(p) == evaluator /\ ~Outside(p)

Answerable(p) == evaluator /\ (\A a \in Axes : Finite(p[a])) /\ ~Outside(p)

\* No evaluator, a coordinate that is not finite, or a position outside: zero.
Refuse ==
    /\ lookup = "called"
    /\ ~Answerable(position)
    /\ lookup' = "refused"
    /\ UNCHANGED <<evaluator, position, field>>

AskEvaluator ==
    /\ lookup = "called"
    /\ Answerable(position)
    /\ lookup' = "asking"
    /\ UNCHANGED <<evaluator, position, field>>

\* The evaluator answers; a vector with a component that is no number becomes zero.
Answer ==
    /\ lookup = "asking"
    /\ \E b \in Answers :
          field' = IF \A a \in Axes : b[a] = "tesla" THEN b ELSE Zero
    /\ lookup' = "answered"
    /\ UNCHANGED <<evaluator, position>>

\* Any exception of the evaluator is caught.
EvaluatorThrows ==
    /\ lookup = "asking"
    /\ lookup' = "caught"
    /\ UNCHANGED <<evaluator, position, field>>

\* The caller goes on; the cache it keeps for the next lookup is empty.
Forget ==
    /\ lookup \in {"refused", "answered", "caught"}
    /\ lookup' = "idle"
    /\ position' = [a \in Axes |-> 0]
    /\ field' = Zero
    /\ UNCHANGED evaluator

FieldNext ==
    \/ \E p \in [Axes -> Coordinates] : GetField(p)
    \/ Refuse \/ AskEvaluator \/ Answer \/ EvaluatorThrows \/ Forget

FieldSpec == FieldInit /\ [][FieldNext]_fieldVars

-------------------------------------------------------------------------------
(* Properties *)

\* The box of the map in numbers: the reference the order of the guards is held to.
Inside(p) ==
    \A a \in Axes : p[a] \in (IF a = "z" THEN 0 .. 100 ELSE -4 .. 4)

\* The evaluator is asked for the points of the closed box of the map and for no
\* other: not for a NaN, which no comparison with the bounds turns away, and for
\* every point on a face; and whatever it does the lookup returns a vector of
\* numbers, all zero or all of the map.
FieldIsSafe ==
    /\ lookup \in {"asking", "answered", "caught"} => evaluator /\ Inside(position)
    /\ lookup = "refused" => ~(evaluator /\ Inside(position))
    /\ field = Zero \/ (lookup = "answered" /\ \A a \in Axes : field[a] = "tesla")
===============================================================================
