--------------------------------- MODULE Cdc ---------------------------------
(***************************************************************************)
(* The USB side of the output: the attachment of the device as the USB     *)
(* stack reports it (USBX/App/app_usbx_device.cpp), the events it posts,   *)
(* CDC::main that turns them into the flag connected, and CDC::transmit,   *)
(* which waits in the class driver until the host has taken the message.   *)
(***************************************************************************)
EXTENDS Naturals, Threads

CONSTANTS Usb,          \* the thread of CDC::main
          MaxPlug       \* bound: how often the host attaches the device

VARIABLES
  device,        \* state of the USB device: removed, attached, configured
  usb_connected, \* the global of the same name
  handle,        \* setHandle was called
  events,        \* the flags posted and not yet taken
  e,             \* the local of CDC::main: the flags it has taken
  connected,     \* CDC::connected
  writing,       \* who holds the mutex of the IN endpoint, a set of one or none
  plugs          \* how often the device was attached

cdcVars == <<pc, device, usb_connected, handle, events, e, connected, writing, plugs>>

CDCEvents == {"Connected", "Disconnected"}

CdcInit ==
  /\ device = "removed"
  /\ usb_connected = FALSE
  /\ handle = FALSE
  /\ events = {}
  /\ e = {}
  /\ connected = FALSE
  /\ writing = {}
  /\ plugs = 0

CdcTypeOK ==
  /\ device \in {"removed", "attached", "configured"}
  /\ {usb_connected, handle, connected} \subseteq BOOLEAN
  /\ events \subseteq CDCEvents /\ e \subseteq CDCEvents
  /\ \A w \in Writers : w \in writing <=> pc[w] \in {"transfer", "written"}
  /\ \A v, w \in writing : v = w

-----------------------------------------------------------------------------
(* The host and the USB stack, in interrupts *)

Attach ==
  /\ device = "removed" /\ plugs < MaxPlug
  /\ device' = "attached"
  /\ plugs' = plugs + 1
  /\ usb_connected' = TRUE
  /\ events' = events \cup {"Connected"}
  /\ UNCHANGED <<pc, handle, e, connected, writing>>

Configure ==
  /\ device = "attached"
  /\ device' = "configured"
  /\ handle' = TRUE
  /\ UNCHANGED <<pc, usb_connected, events, e, connected, writing, plugs>>

(* A transfer the host no longer takes is aborted. *)
Remove ==
  /\ device # "removed"
  /\ device' = "removed"
  /\ usb_connected' = FALSE
  /\ events' = events \cup {"Disconnected"}
  /\ pc' = [t \in DOMAIN pc |-> IF pc[t] = "transfer" THEN "written" ELSE pc[t]]
  /\ UNCHANGED <<handle, e, connected, writing, plugs>>

HostTakes(w) ==
  /\ pc[w] = "transfer" /\ device = "configured"
  /\ Goto(w, "written")
  /\ UNCHANGED <<device, usb_connected, handle, events, e, connected, writing, plugs>>

-----------------------------------------------------------------------------
(* CDC::main *)

(* The thread polls for the handle, then takes all the flags at once and   *)
(* says what it has found; the text of Disconnected comes first.           *)
TakeEvents ==
  /\ pc[Usb] = "idle" /\ handle /\ events # {}
  /\ e' = events
  /\ events' = {}
  /\ UNCHANGED <<device, usb_connected, handle, connected, writing, plugs>>

NextEvent == IF "Disconnected" \in e THEN "Disconnected" ELSE "Connected"

FollowTheEvent ==                \* mutant: the flag says what the state is
  /\ pc[Usb] = "said"
  /\ connected' = (NextEvent = "Connected")
  /\ e' = e \ {NextEvent}
  /\ UNCHANGED <<device, usb_connected, handle, events, writing, plugs>>

(* connected = usb_connected, after the text of either event *)
Follow ==
  /\ pc[Usb] = "said"
  /\ connected' = usb_connected
  /\ e' = e \ {NextEvent}
  /\ UNCHANGED <<device, usb_connected, handle, events, writing, plugs>>

-----------------------------------------------------------------------------
(* CDC::transmit with ux_device_class_cdc_acm_write *)

(* The loop is left when nothing is connected, or when the write has sent  *)
(* nothing because the device is not configured, and it is not entered for *)
(* a message that is empty.                                                *)
Skip(w, empty) ==
  /\ pc[w] = "usb" /\ (~connected \/ device # "configured" \/ empty)
  /\ Goto(w, "done")
  /\ UNCHANGED <<device, usb_connected, handle, events, e, connected, writing, plugs>>

Write(w, empty) ==
  /\ pc[w] = "usb" /\ connected /\ device = "configured" /\ ~empty /\ writing = {}
  /\ writing' = {w}
  /\ Goto(w, "transfer")
  /\ UNCHANGED <<device, usb_connected, handle, events, e, connected, plugs>>

WrittenLocked(w) ==              \* mutant: the mutex is kept on an abort
  /\ pc[w] = "written"
  /\ Goto(w, "done")
  /\ writing' = IF device = "configured" THEN {} ELSE writing
  /\ UNCHANGED <<device, usb_connected, handle, events, e, connected, plugs>>

(* All was sent, or the transfer was aborted and nothing was: either way   *)
(* the mutex is given back and the loop ends.                              *)
Written(w) ==
  /\ pc[w] = "written"
  /\ Goto(w, "done")
  /\ writing' = {}
  /\ UNCHANGED <<device, usb_connected, handle, events, e, connected, plugs>>

UsbTransmit(w, empty) == Skip(w, empty) \/ Write(w, empty) \/ Written(w)
=============================================================================
