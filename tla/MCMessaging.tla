---------------------------- MODULE MCMessaging ----------------------------
(***************************************************************************)
(* Instances of the messaging system for TLC.                              *)
(***************************************************************************)
EXTENDS Messaging, TLC

CONSTANTS NoElement,  \* names an element that does not take part
          Starts, Sends, Crashes, Logouts, Clears, Periods, RouterCrashes

MCBudget == ("start" :> Starts) @@ ("send" :> Sends) @@ ("crash" :> Crashes)
            @@ ("logout" :> Logouts) @@ ("clear" :> Clears)
            @@ ("periodic" :> Periods) @@ ("routercrash" :> RouterCrashes)
=============================================================================
