----------------------------- MODULE RentStream -----------------------------
(***************************************************************************)
(* What Opticrum promises, without cells, scripts or headers.  A stream is *)
(* offered with a pool and a rate, either withdrawn or started with that   *)
(* same pool and rate, and once started it pays rate per block, measured   *)
(* from since, to the seller until the rent due has used up the pool.      *)
(***************************************************************************)
EXTENDS Integers

CONSTANT Stream

VARIABLES now, stream

vars == <<now, stream>>

Due(s, t) == IF t >= s.since THEN s.rate * (t - s.since) ELSE 0

None   == [phase |-> "none",   pool |-> 0, rate |-> 0, since |-> 0]
Closed == [phase |-> "closed", pool |-> 0, rate |-> 0, since |-> 0]

Init == now = 0 /\ stream = [e \in Stream |-> None]

Becomes(e, phase) ==
    /\ stream' = [stream EXCEPT ![e] = stream'[e]]
    /\ stream'[e].phase = phase
    /\ now' = now

Closes(e) == stream' = [stream EXCEPT ![e] = Closed] /\ now' = now

Tick == now' = now + 1 /\ UNCHANGED stream

Offer(e) ==
    /\ stream[e] = None
    /\ Becomes(e, "offered")
    /\ stream'[e].pool \in Nat

Withdraw(e) ==
    /\ stream[e].phase = "offered"
    /\ Closes(e)

Start(e) ==
    /\ stream[e].phase = "offered"
    /\ Becomes(e, "streaming")
    /\ stream'[e].pool = stream[e].pool
    /\ stream'[e].rate = stream[e].rate
    /\ stream'[e].since = now + 1

(* The seller is paid what is due at some block t of the chain, which must  *)
(* not use up the pool.  A payment of nothing may leave the pool fuller.    *)
(* Block 0 stands for "not paid yet": a payment at it restarts the clock.   *)
Pay(e, t) ==
    /\ stream[e].phase = "streaming"
    /\ Becomes(e, "streaming")
    /\ stream'[e].rate = stream[e].rate
    /\ stream'[e].since = IF t = 0 THEN now + 1 ELSE t
    /\ Due(stream[e], t) < stream[e].pool
    /\ IF Due(stream[e], t) > 0
       THEN stream'[e].pool = stream[e].pool - Due(stream[e], t)
       ELSE stream'[e].pool >= stream[e].pool

(* The buyer sets the pool freely.  The clock goes on, or starts again      *)
(* where the stream has not been paid yet.                                  *)
Adjust(e) ==
    /\ stream[e].phase = "streaming"
    /\ Becomes(e, "streaming")
    /\ stream'[e].rate = stream[e].rate
    /\ stream'[e].pool \in Nat
    /\ stream'[e].since \in {stream[e].since, now + 1}

Sweep(e, t) ==
    /\ stream[e].phase = "streaming"
    /\ stream[e].pool <= Due(stream[e], t)
    /\ Closes(e)

Next ==
    \/ Tick
    \/ \E e \in Stream :
          \/ Offer(e) \/ Withdraw(e) \/ Start(e) \/ Adjust(e)
          \/ \E t \in 0..now : Pay(e, t) \/ Sweep(e, t)

Spec == Init /\ [][Next]_vars
=============================================================================
