------------------------- MODULE MCWebhookDeliveries -------------------------
EXTENDS WebhookDeliveries
=============================================================================
