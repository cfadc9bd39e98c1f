----------------------------- MODULE SendLedger -----------------------------
(***************************************************************************)
(* What eth_sendTransaction promises to the callers of one provider, with  *)
(* the nonces left to it: requests form a line, the first of the line may  *)
(* put its transaction on the ledger, under the next nonce, and is told    *)
(* "ok" only if it did.                                                    *)
(***************************************************************************)
EXTENDS Naturals, Sequences
CONSTANT Requests
VARIABLES line,    \* the requests in progress, in the order they were made
          ledger,  \* the transactions the node took
          status   \* what each caller knows

vars == <<line, ledger, status>>

Init == /\ line = <<>>
        /\ ledger = <<>>
        /\ status = [r \in Requests |-> "new"]

Posted(r) == \E i \in 1 .. Len(ledger) : ledger[i].req = r

Submit(r) == /\ status[r] = "new"
             /\ line' = Append(line, r)
             /\ status' = [status EXCEPT ![r] = "pending"]
             /\ UNCHANGED ledger

Refuse(r) == /\ status[r] = "new"
             /\ status' = [status EXCEPT ![r] = "failed"]
             /\ UNCHANGED <<line, ledger>>

First(r) == line # <<>> /\ r = Head(line)

Post(r) == /\ First(r) /\ ~Posted(r)
           /\ ledger' = Append(ledger, [req |-> r, nonce |-> Len(ledger)])
           /\ UNCHANGED <<line, status>>

Finish(r, outcome) == /\ First(r)
                      /\ outcome = "ok" => Posted(r)
                      /\ line' = Tail(line)
                      /\ status' = [status EXCEPT ![r] = outcome]
                      /\ UNCHANGED ledger

Next == \E r \in Requests : \/ Submit(r) \/ Refuse(r) \/ Post(r)
                            \/ \E o \in {"ok", "failed"} : Finish(r, o)

Spec == Init /\ [][Next]_vars
=============================================================================
