------------------------------ MODULE MCMessage ------------------------------
(***************************************************************************)
(* Threads that share messages, or buffers.  The two have nothing in       *)
(* common, so a behaviour is about one of them: nothing is gained by their *)
(* product.                                                                *)
(***************************************************************************)
EXTENDS RtMessage

CONSTANTS Buffers, MaxBufferRefs

VARIABLES refcount, data, frees, held_buffers, last

bufferVars == <<refcount, data, frees, held_buffers, last>>

Buffer == INSTANCE RtBuffer WITH MaxRefs <- MaxBufferRefs, held <- held_buffers

MCInit == Init /\ Buffer!Init

MCNext ==
    \/ Next /\ (\A b \in Buffers : data[b] = "none") /\ UNCHANGED bufferVars
    \/ Buffer!Next /\ messages = <<>> /\ UNCHANGED vars

MCSpec ==
    /\ MCInit /\ [][MCNext]_<<vars, bufferVars>>
    /\ \A t \in Threads : WF_bufferVars(Buffer!Release(t))

BufferImplementsShared == Buffer!BufferImplementsShared
=============================================================================
