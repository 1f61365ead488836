---------------------------- MODULE PipelineInv ----------------------------
(* The inductive invariant behind the safety properties of DepositPipeline. *)
EXTENDS DepositPipeline, WalletInv

(* AcceptOffer draws up every contract once.                               *)
OneRequest == \A e, f \in topic : e.ref = f.ref => e = f

(* The worker runs requests of the topic, and what it has committed is     *)
(* frozen; the other goroutines run what clients call.                     *)
WorkerOK ==
  tx[Worker] # NoTx => /\ tx[Worker].op \in topic
                       /\ tx[Worker].pc = "index" => Frozen(tx[Worker].op)
ClientsOK ==
  \A s \in Sessions \ {Worker} :
    tx[s] # NoTx => tx[s].op.kind = "deposit" \/ tx[s].op.ref \in TransferRefs

(* A reference in the inbox was put there by its request, which is frozen, *)
(* or belongs to a client's transfer.                                      *)
InboxExplained ==
  \A r \in processed : r \in TransferRefs \/ \E e \in topic : e.ref = r /\ Frozen(e)

PipelineInv ==
  /\ WalletInv
  /\ PipelineTypeOK
  /\ OneRequest
  /\ WorkerOK
  /\ ClientsOK
  /\ InboxExplained
  /\ NoneForgotten
=============================================================================
