---------------------------- MODULE MCGuestCalls ----------------------------
(* GuestCalls, with six points of time and two durations, and units shorter   *)
(* than, as long as and longer than the tick of the clock; and the device's   *)
(* properties, which its calls read: an identifier, another property that is  *)
(* made of it, a short and a long value, and an area for about five records;  *)
(* and the copies that JNI lends, of two arrays and of strings.  No call reads *)
(* what the others change: each is explored while the others are as they began. *)
EXTENDS GuestCalls, DeviceProperties, ElementBuffers

SomeTimes == 0 .. 5
Units == ("ns" :> 1) @@ ("us" :> 2) @@ ("1/100 s" :> 3) @@ ("s" :> 5)
SomeDurations == {-1, 2}

TheKeys == <<"ro.build.display.id", "ro.build.id">>
TheComputed == ("ro.build.display.id" :> {"ro.build.id"})
TheBytes ==
    [name  |-> ("ro.build.display.id" :> 19 @@ "ro.build.id" :> 11),
     leaf  |-> [n \in ToSet(TheKeys) |-> 2],
     value |-> [p \in PropertyValue |->
                   IF "long" \in Range(p) THEN 92 ELSE IF "short" \in Range(p) THEN 91 ELSE 0]]

SystemInit == Init /\ PInit /\ BInit

SystemNext ==
    \/ PInit /\ BInit /\ Next /\ UNCHANGED <<pvars, bvars>>
    \/ Init /\ BInit /\ PNext /\ UNCHANGED <<vars, bvars>>
    \/ Init /\ PInit /\ BNext /\ UNCHANGED <<vars, pvars>>

SystemSpec == SystemInit /\ [][SystemNext]_<<vars, pvars, bvars>>
=============================================================================
