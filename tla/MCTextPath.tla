----------------------------- MODULE MCTextPath ------------------------------
EXTENDS TextPath
LevelOne == {[conf |-> [codec |-> "T140_RED", level |-> 1, keep |-> FALSE,
                        mRtpPayloadTx |-> 112, mRtpPayloadRx |-> 112, mRedundantPayload |-> 111],
              chars |-> 2, faults |-> 0, first |-> 1]}
=============================================================================
