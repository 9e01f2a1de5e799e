----------------------- MODULE MCAsyncThrottler -----------------------
(* Two limits as exchanges define them: a pool every call counts against,  *)
(* and an endpoint limit linked to that pool.                              *)
EXTENDS AsyncThrottler, TLC

CONSTANTS pool, orders, r1, r2, r3, r4

MCLimitIds == {pool, orders}
MCLimit    == (pool :> 4 @@ orders :> 2)
MCInterval == (pool :> 2 @@ orders :> 3)
MCMargin   == (pool :> 1 @@ orders :> 0)

(* A plain call on the pool, a heavy one, and calls on the linked limit.   *)
Call(l, w) == [limit |-> l, weight |-> w]
MCCounts == (r1 :> <<Call(pool, 1)>>
          @@ r2 :> <<Call(pool, 2)>>
          @@ r3 :> <<Call(orders, 1), Call(pool, 1)>>
          @@ r4 :> <<Call(orders, 1), Call(pool, 1)>>)
=============================================================================
