-------------------------- MODULE MCListingHealth --------------------------
EXTENDS ListingHealth
=============================================================================
