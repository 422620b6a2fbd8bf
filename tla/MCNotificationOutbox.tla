------------------------ MODULE MCNotificationOutbox ------------------------
EXTENDS NotificationOutbox, TLC

Symmetry == Permutations(Workers)
=============================================================================
