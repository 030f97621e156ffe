------------------------------- MODULE MCCalendar -------------------------------
\* An instance of Calendar: months of each length but the leap one, seventeen
\* weeks in all.
EXTENDS Calendar

MCMonthDays == <<28, 31, 30, 30>>
================================================================================
