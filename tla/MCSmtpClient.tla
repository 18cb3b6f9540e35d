---------------------------- MODULE MCSmtpClient ----------------------------
EXTENDS SmtpClient
CONSTANTS ann, bert, junk

\* A mail to nobody, one to an address that is none, one with a copy and a
\* blind copy, one that names a recipient twice.
MCMails ==
    { [to |-> <<>>, cc |-> <<>>, bcc |-> <<>>],
      [to |-> <<ann>>, cc |-> <<junk>>, bcc |-> <<>>],
      [to |-> <<ann>>, cc |-> <<>>, bcc |-> <<bert>>],
      [to |-> <<ann>>, cc |-> <<bert, ann>>, bcc |-> <<>>] }
=============================================================================
