------------------------------ MODULE MCDevices ------------------------------
(* The disk driver, or the serial line and the console.                     *)
EXTENDS Ide, Serial

MCBlock == {[disk |-> 0, start |-> 0, size |-> 2], [disk |-> 0, start |-> 1, size |-> 1],
            [disk |-> 1, start |-> 0, size |-> 1]}

VARIABLE device
devVars == <<device, ideVars, serialVars>>

DevInit == IdeInit /\ SerialInit /\ device \in {"disk", "console"}
DevNext ==
  \/ device = "disk" /\ IdeNext /\ UNCHANGED <<serialVars, device>>
  \/ device = "console" /\ SerialNext /\ UNCHANGED <<ideVars, device>>
DevSpec == DevInit /\ [][DevNext]_devVars /\ IdeFairness /\ SerialFairness

(* select_sector() to the end of the transfer, and write_ier(): a disk     *)
(* request returns unless the drive fails, and bytes in the transmit queue *)
(* get sent, also after a panic.                                           *)
DevicesAnswer == RequestsReturn /\ QueueDrains
=============================================================================
