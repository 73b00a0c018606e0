---------------------------- MODULE MCDonorOutbox ----------------------------
(* One received mail and one sent draft, published by up to two ticks        *)
EXTENDS DonorOutbox, TLC

CONSTANTS mail, sent
=============================================================================
