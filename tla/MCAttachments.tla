---- MODULE MCAttachments ----
EXTENDS Attachments

\* an attachment below a bucket level, one of a proposal, and a file that is none
MCName == {<<"bucket_1", "12", "7">>, <<"shadow", "12", "7">>, <<"img", "orgs">>}
====
