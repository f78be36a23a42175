------------------------------ MODULE MCGuestReview ------------------------------
EXTENDS GuestReview, TLC

CONSTANTS g1, g2, p1

MCGuests == {g1, g2}
MCCallers == {g1, g2, p1}
MCVisits == {MCGuests, {p1}}
================================================================================
