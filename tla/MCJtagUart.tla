------------------------------ MODULE MCJtagUart ------------------------------
(* JtagUart for TLC.  A behaviour uses one direction of the driver: the readers
   and the host that sends, or the writers and the host that takes.  The two share
   no buffer, and the flags of one are never waited for by the other. *)
EXTENDS JtagUart, TLC

\* The second timeout never runs out.
OneTimeout == <<1>>
TwoTimeouts == <<1, MaxInactive + 1>>
Writers == Permutations(Writer)

VARIABLE use

Receiving == \/ \E t \in Reader : altera_avalon_jtag_uart_read(t)
             \/ HostSends
Sending == \/ \E t \in Writer : altera_avalon_jtag_uart_write(t) \/ altera_avalon_jtag_uart_close(t)
           \/ HostTakes
Both == \/ altera_avalon_jtag_uart_ioctl
        \/ altera_avalon_jtag_uart_irq \/ altera_avalon_jtag_uart_timeout

MCInit == Init /\ use \in {"receive", "send"}
MCNext == /\ \/ use = "receive" /\ Receiving
             \/ use = "send" /\ Sending
             \/ Both
          /\ UNCHANGED use

SafeSpec == MCInit /\ [][MCNext]_<<jvars, use>>

FairSpec == /\ SafeSpec
            /\ \A t \in Reader : WF_jvars(use = "receive" /\ altera_avalon_jtag_uart_read(t) /\ UNCHANGED use)
            /\ \A t \in Writer : /\ WF_jvars(use = "send" /\ altera_avalon_jtag_uart_write(t) /\ UNCHANGED use)
                                 /\ WF_jvars(use = "send" /\ CloseEnds(t) /\ UNCHANGED use)
            /\ WF_jvars(altera_avalon_jtag_uart_irq /\ UNCHANGED use)
            /\ Host => WF_jvars(use = "send" /\ HostTakes /\ UNCHANGED use)
=============================================================================
